---- MODULE Spec2Model ----
(***************************************************************************)
(* A model of the SQL-to-dataflow compiler of the repository and of the    *)
(* services around it:                                                     *)
(*   - plan graph construction        (arroyo-sql/src/plan_graph.rs)       *)
(*   - the artifact-builder service   (arroyo-compiler-service/src/main.rs)*)
(*   - create_pipeline / compile_sql  (arroyo-api/src/pipelines.rs)        *)
(*   - UDF registration and the UDF configuration comment                  *)
(*                                    (arroyo-sql/src/lib.rs)              *)
(*   - the statements of a query and the table catalog                     *)
(*                                    (arroyo-sql/src/lib.rs)              *)
(*   - Avro schemas to struct fields  (arroyo-sql/src/avro.rs)             *)
(*   - the type-erased connector operations                                *)
(*                                    (arroyo-connectors/src/lib.rs)       *)
(*   - FusedRecordTransform::to_operator                                   *)
(*                                    (arroyo-sql/src/plan_graph.rs)       *)
(*   - parse_and_get_program          (arroyo-sql/src/lib.rs)              *)
(* Each part has its own specification (SpecPlan, SpecSvc, SpecApi,        *)
(* SpecUdf, SpecToml, SpecSql, SpecCat, SpecAvro, SpecConn, SpecEdge,      *)
(* SpecFused, SpecCq) over the part's variables; the variables of the      *)
(* other parts are held at their initial values.                           *)
(***************************************************************************)
EXTENDS Integers, Sequences, FiniteSets, TLC

VARIABLES
    \* plan graph construction
    operator,       \* the SqlOperator tree handed to PlanGraph::new
    plan_graph,     \* the PlanGraph: nodes, edges, sources
    plan_built,     \* PlanGraph::new has returned
    source_defs,    \* schema_provider.source_defs, as handed to get_program_from_operator_with_plan
    sql_program,    \* the Program it returned: other_defs and the graph's edges
    \* artifact-builder service
    idle_time,      \* IDLE_SHUTDOWN_MS in seconds, NoIdle when the variable is not set
    elapsed,        \* from_millis(last_used).elapsed() in seconds, counted up to MaxIdle + 1
    watcher,        \* the idle watcher task: "none", "check" or "sleep"
    exited,         \* the process has called exit
    exit_code,      \* the code it exited with
    lock,           \* CompileService.lock: the request holding it, 0 when free
    req,            \* the compile_query requests: pc, wasm_fns non-empty, outcome
    build_dir,      \* the build directory: whose sources and whose build outputs it holds
    storage,        \* the artifacts put to storage
    \* create_pipeline and compile_sql
    api_req,        \* the CreatePipelineReq: config, parallelism, preview, name, udfs
    auth,           \* AuthData.org_metadata: the limits of the caller's plan
    api_pc,         \* where create_pipeline is
    api_i,          \* index of the loop create_pipeline or compile_sql is in
    schema,         \* compile_sql's schema provider: UDFs registered, tables loaded
    sql_compiled,   \* parse_and_get_program has been called
    program,        \* create_pipeline's `program`: the operators of its nodes
    compiled,       \* the program as it was before the preview rewrite
    errors,         \* create_pipeline's `errors`: what validate_graph reported
    connections,    \* create_pipeline's `connections`
    is_preview,     \* create_pipeline's `is_preview`
    db,             \* the rows written through tx
    api_result,     \* what create_pipeline returned
    \* the UDF configuration comment
    text,           \* the UDF definition, line by line
    dependencies,   \* what parse_dependencies(text) returned
    udf_opts,       \* what parse_udf_opts(text) returned
    \* UDF registration
    functions,      \* ArroyoSchemaProvider.functions: the names registered
    aggregate_functions, \* ArroyoSchemaProvider.aggregate_functions
    udf_defs,       \* ArroyoSchemaProvider.udf_defs
    body,           \* the argument of add_rust_udf
    udf_result,     \* what add_rust_udf returned
    before,         \* the three maps as they were when add_rust_udf was last called
    \* parse_and_get_program_sync
    query,          \* the statements of the query
    sql_pc,         \* where parse_and_get_program_sync is
    inserts,        \* its `inserts`
    insert_nodes,   \* sql_pipeline_builder.insert_nodes
    plan_ops,       \* the operators handed to plan_graph.add_sql_operator, in order
    sql_result,     \* what parse_and_get_program_sync returned
    \* the table catalog of ArroyoSchemaProvider
    schema_provider, \* its `tables` and `source_defs`
    inserted,       \* the tables inserted so far, in order
    lookup,         \* the last get_table call and what it returned
    \* convert_avro_schema
    avro_text,      \* the schema text it is called with, as the Avro parser reads it
    avro_result,    \* what it returned
    \* the type-erased connector operations
    conn_call,      \* the operation called, its config text and its table text
    conn_pc,        \* where the operation is
    conn_parsed,    \* which texts it has parsed, in order
    conn_config,    \* the parsed config
    conn_table,     \* the parsed table
    typed_calls,    \* the calls of the connector's typed operation
    progress,       \* the messages sent on tx, the progress channel of test
    conn_result,    \* what the operation returned
    \* into_stream_edge
    plan_edge,      \* the PlanEdge
    stream_edge,    \* the StreamEdge made from it
    \* FusedRecordTransform::to_operator
    fused,          \* the FusedRecordTransform: expressions, output_types, return type
    fused_operator, \* the Operator to_operator returned, or that it panicked
    \* parse_and_get_program
    cq_query,       \* the query: whether it is blank, and the operator tree it plans to
    cq_pc,          \* where parse_and_get_program is
    cq_task,        \* the task it spawned: "none", "running", "finished" or "panicked"
    cq_result       \* what it returned

planVars == <<operator, plan_graph, plan_built, source_defs, sql_program>>

svcVars == <<idle_time, elapsed, watcher, exited, exit_code, lock, req, build_dir, storage>>

apiVars == <<api_req, auth, api_pc, api_i, schema, sql_compiled, program, compiled, errors,
             connections, is_preview, db, api_result>>

tomlVars == <<text, dependencies, udf_opts>>

udfVars == <<functions, aggregate_functions, udf_defs, body, udf_result, before>>

sqlVars == <<query, sql_pc, inserts, insert_nodes, plan_ops, sql_result>>

catVars == <<schema_provider, inserted, lookup>>

avroVars == <<avro_text, avro_result>>

connVars == <<conn_call, conn_pc, conn_parsed, conn_config, conn_table, typed_calls,
              progress, conn_result>>

edgeVars == <<plan_edge, stream_edge>>

fusedVars == <<fused, fused_operator>>

cqVars == <<cq_query, cq_pc, cq_task, cq_result>>

vars == <<planVars, svcVars, apiVars, tomlVars, udfVars, sqlVars, catVars,
          avroVars, connVars, edgeVars, fusedVars, cqVars>>

\* What the actions of one part leave unchanged: the variables of the others.
notPlan == <<svcVars, apiVars, tomlVars, udfVars, sqlVars, catVars,
             avroVars, connVars, edgeVars, fusedVars, cqVars>>
notSvc == <<planVars, apiVars, tomlVars, udfVars, sqlVars, catVars,
            avroVars, connVars, edgeVars, fusedVars, cqVars>>
notApi == <<planVars, svcVars, tomlVars, udfVars, sqlVars, catVars,
            avroVars, connVars, edgeVars, fusedVars, cqVars>>
notToml == <<planVars, svcVars, apiVars, udfVars, sqlVars, catVars,
             avroVars, connVars, edgeVars, fusedVars, cqVars>>
notUdf == <<planVars, svcVars, apiVars, tomlVars, sqlVars, catVars,
            avroVars, connVars, edgeVars, fusedVars, cqVars>>
notSql == <<planVars, svcVars, apiVars, tomlVars, udfVars, catVars,
            avroVars, connVars, edgeVars, fusedVars, cqVars>>
notCat == <<planVars, svcVars, apiVars, tomlVars, udfVars, sqlVars,
            avroVars, connVars, edgeVars, fusedVars, cqVars>>
notAvro == <<planVars, svcVars, apiVars, tomlVars, udfVars, sqlVars,
             catVars, connVars, edgeVars, fusedVars, cqVars>>
notConn == <<planVars, svcVars, apiVars, tomlVars, udfVars, sqlVars,
             catVars, avroVars, edgeVars, fusedVars, cqVars>>
notEdge == <<planVars, svcVars, apiVars, tomlVars, udfVars, sqlVars,
             catVars, avroVars, connVars, fusedVars, cqVars>>
notFused == <<planVars, svcVars, apiVars, tomlVars, udfVars, sqlVars,
              catVars, avroVars, connVars, edgeVars, cqVars>>
notCq == <<planVars, svcVars, apiVars, tomlVars, udfVars, sqlVars,
           catVars, avroVars, connVars, edgeVars, fusedVars>>

(***************************************************************************)
(* Bounds of the model.                                                    *)
(***************************************************************************)
\* Depth of the SqlOperator trees that are enumerated (a Source has depth 0).
MaxDepth == 2
\* Number of compile_query requests the service receives.
NumReqs == 2
\* Largest idle interval, in seconds.
MaxIdle == 1
\* Largest number of UDFs in a CreateSqlJob.
MaxUdfs == 2
\* Largest number of nodes of a compiled program.
MaxNodes == 2
\* Largest number of connection ids a compile returns.
MaxConns == 2
\* Largest number of errors validate_graph reports.
MaxErrors == 2
\* Largest parallelism of a request and of a plan.
MaxParallelism == 2
\* Largest number of lines of a UDF definition.
MaxTextLen == 7
\* Largest number of parameters of a UDF.
MaxParams == 2
\* Largest number of statements of a query.
MaxStatements == 3
\* Largest number of tables inserted into the catalog.
MaxInserts == 3
\* Largest number of variants of an Avro union.
MaxVariants == 3
\* Largest number of fields of an Avro record.
MaxFields == 2
\* Largest number of messages a connector test sends.
MaxMessages == 2
\* Largest number of components of a FusedRecordTransform.
MaxComponents == 2

(***************************************************************************)
(* Types: StructDef, StructField, PlanType.                                *)
(***************************************************************************)
StructField(name, data_type, nullable) ==
    [name |-> name, data_type |-> data_type, nullable |-> nullable]

StructDef(name, fields) == [name |-> name, fields |-> fields]

Unkeyed(value) == [kind |-> "Unkeyed", key |-> <<>>, value |-> <<value>>]

Keyed(key, value) == [kind |-> "Keyed", key |-> <<key>>, value |-> <<value>>]

KeyedPair(key, left_value, right_value) ==
    [kind |-> "KeyedPair", key |-> <<key>>, value |-> <<left_value, right_value>>]

KeyedListPair(key, left_value, right_value) ==
    [kind |-> "KeyedListPair", key |-> <<key>>, value |-> <<left_value, right_value>>]

KeyedLiteralTypeValue(key, value) ==
    [kind |-> "KeyedLiteralTypeValue", key |-> <<key>>, value |-> <<value>>]

KeyedKinds == {"Keyed", "KeyedPair", "KeyedListPair", "KeyedLiteralTypeValue"}

(***************************************************************************)
(* SqlOperator trees.  SqlOperator, RecordTransform and the operators'     *)
(* output structs are defined in pipeline.rs and operators.rs; the plan    *)
(* graph only reads return_type() and the output structs.                  *)
(***************************************************************************)
SourceNames == {"a", "b"}

JoinTypes == {"Inner"}

\* SqlSource.struct_def of the #[source] table `name`.
SourceStruct(name) ==
    StructDef(name, <<StructField("id", "Int64", FALSE), StructField("msg", "Utf8", TRUE)>>)

\* Projection::output_struct of the one value projection that is enumerated.
ProjectionStruct == StructDef("projection", <<StructField("msg", "Utf8", TRUE)>>)

\* AggregateOperator.key.output_struct()
KeyStruct == StructDef("key", <<StructField("id", "Int64", FALSE)>>)

\* AggregateProjection::output_struct
AggregateStruct == StructDef("aggregate", <<StructField("count", "Int64", FALSE)>>)

\* JoinOperator.left_key.output_struct()
JoinKeyStruct == StructDef("join_key", <<StructField("id", "Int64", FALSE)>>)

\* SqlWindowOperator.partition.output_struct()
PartitionStruct == StructDef("partition", <<StructField("id", "Int64", FALSE)>>)

RecordTransforms ==
    { [kind |-> "Filter"], [kind |-> "ValueProjection"] }

SourceOp(name) == [op |-> "Source", name |-> name]

RecordTransformOp(input, transform) ==
    [op |-> "RecordTransform", input |-> input, transform |-> transform]

AggregatorOp(input) ==
    [op |-> "Aggregator", input |-> input, window |-> "Tumbling", merge |-> "Basic"]

JoinOp(left, right, join_type) ==
    [op |-> "JoinOperator", left |-> left, right |-> right, join_type |-> join_type]

WindowOp(input, field_name) ==
    [op |-> "Window", input |-> input, field_name |-> field_name]

RECURSIVE Trees(_)
Trees(d) ==
    IF d = 0 THEN { SourceOp(n) : n \in SourceNames }
    ELSE LET sub == Trees(d - 1)
         IN  sub
             \cup { RecordTransformOp(t, x) : t \in sub, x \in RecordTransforms }
             \cup { AggregatorOp(t) : t \in sub }
             \cup { WindowOp(t, "rn") : t \in sub }
             \cup { JoinOp(l, r, j) : l \in sub, r \in sub, j \in JoinTypes }

\* GroupByKind::output_struct: the key fields followed by the aggregate fields.
MergeOutputStruct(key_struct, aggregate_struct) ==
    StructDef("merge_out", key_struct.fields \o aggregate_struct.fields)

\* JoinType::output_struct: the fields of both sides.
JoinOutputStruct(join_type, left, right) ==
    StructDef("join_out", left.fields \o right.fields)

\* RecordTransform::output_struct
TransformOutputStruct(transform, input_type) ==
    IF transform.kind = "ValueProjection" THEN ProjectionStruct ELSE input_type

WindowResultType_first(input_type, field_name) ==
    StructDef(input_type.name,
              <<StructField(field_name, "UInt64", FALSE)>> \o input_type.fields)

\* The struct add_window builds: the input struct and the UInt64 field.
WindowResultType(input_type, field_name) ==
    StructDef(input_type.name,
              Append(input_type.fields, StructField(field_name, "UInt64", FALSE)))

\* SqlOperator::return_type
RECURSIVE ReturnType(_)
ReturnType(op) ==
    CASE op.op = "Source" -> SourceStruct(op.name)
      [] op.op = "RecordTransform" ->
            TransformOutputStruct(op.transform, ReturnType(op.input))
      [] op.op = "Aggregator" -> MergeOutputStruct(KeyStruct, AggregateStruct)
      [] op.op = "JoinOperator" ->
            JoinOutputStruct(op.join_type, ReturnType(op.left), ReturnType(op.right))
      [] op.op = "Window" -> WindowResultType(ReturnType(op.input), op.field_name)

\* SqlOperator::has_window
RECURSIVE HasWindow(_)
HasWindow(op) ==
    CASE op.op = "Source" -> FALSE
      [] op.op = "RecordTransform" -> HasWindow(op.input)
      [] op.op = "Aggregator" -> op.window # "Instant"
      [] op.op = "JoinOperator" -> HasWindow(op.left) \/ HasWindow(op.right)
      [] op.op = "Window" -> TRUE

(***************************************************************************)
(* The plan graph: a petgraph DiGraph.  Nodes and edges are kept in the    *)
(* order they were added; a node's index is its position (from 1).         *)
(***************************************************************************)
EmptyGraph ==
    [nodes |-> <<>>, edges |-> <<>>, sources |-> [n \in SourceNames |-> 0]]

PlanNode(op, typ) == [operator |-> op, output_type |-> typ]

PlanEdge(edge_data_type, edge_type) ==
    [edge_data_type |-> edge_data_type, edge_type |-> edge_type]

Forward == <<"Forward">>
Shuffle == <<"Shuffle">>
ShuffleJoin(side) == <<"ShuffleJoin", side>>

\* PlanGraph::insert_operator; the new node's index is Len(g.nodes) + 1.
InsertOperator(g, op, typ) == [g EXCEPT !.nodes = Append(@, PlanNode(op, typ))]

AddEdge_reversed(g, from, to, edge) ==
    [g EXCEPT !.edges = Append(@, [source |-> to, target |-> from, weight |-> edge])]

\* DiGraph::add_edge
AddEdge(g, from, to, edge) ==
    [g EXCEPT !.edges = Append(@, [source |-> from, target |-> to, weight |-> edge])]

WatermarkOperator_late ==
    [op |-> "Watermark", kind |-> "Periodic", period |-> 1, max_lateness |-> 0]

\* add_sql_source
WatermarkOperator ==
    [op |-> "Watermark", kind |-> "Periodic", period |-> 1, max_lateness |-> 1]

SourcesGet_none(g, name) == 0

\* self.sources.get(&name): the index stored under the name, 0 for None
SourcesGet(g, name) == g.sources[name]

AddSqlSource(g, name) ==
    IF SourcesGet(g, name) # 0
    THEN [g |-> g, idx |-> SourcesGet(g, name)]
    ELSE LET plan_type == Unkeyed(SourceStruct(name))
             source_index == Len(g.nodes) + 1
             g1 == InsertOperator(g, [op |-> "Source", name |-> name], plan_type)
             watermark_index == Len(g1.nodes) + 1
             g2 == InsertOperator(g1, WatermarkOperator, plan_type)
             g3 == AddEdge(g2, source_index, watermark_index,
                           PlanEdge(plan_type, Forward))
         IN  [g |-> [g3 EXCEPT !.sources[name] = watermark_index],
              idx |-> watermark_index]

\* add_aggregator: the three nodes' output types and the three edges.
\* The key projection declared with its input's unkeyed type.
AggregatorKeyType_unkeyed(key_struct, input_type) == Unkeyed(input_type)

AggregatorKeyType(key_struct, input_type) == Keyed(key_struct, input_type)

AggregatorKeyEdge_shuffle(input_type) == PlanEdge(Unkeyed(input_type), Shuffle)

AggregatorKeyEdge(input_type) == PlanEdge(Unkeyed(input_type), Forward)

AggregatorMergeType(key_struct, output_type) == Keyed(key_struct, output_type)

AddAggregatorNodes(g, input_index, input_type, op) ==
    LET output_type == MergeOutputStruct(KeyStruct, AggregateStruct)
        key_struct == KeyStruct
        key_index == Len(g.nodes) + 1
        g1 == InsertOperator(g, [op |-> "KeyProjection"],
                             AggregatorKeyType(key_struct, input_type))
        g2 == AddEdge(g1, input_index, key_index, AggregatorKeyEdge(input_type))
        aggregate_struct == AggregateStruct
        aggregate_index == Len(g2.nodes) + 1
        g3 == InsertOperator(g2, [op |-> "WindowAggregate", window |-> op.window],
                             Keyed(key_struct, aggregate_struct))
        g4 == AddEdge(g3, key_index, aggregate_index,
                      PlanEdge(Keyed(key_struct, input_type), Shuffle))
        merge_index == Len(g4.nodes) + 1
        g5 == InsertOperator(g4, [op |-> "WindowMerge", key_struct |-> key_struct,
                                  value_struct |-> aggregate_struct,
                                  group_by_kind |-> op.merge],
                             AggregatorMergeType(key_struct, output_type))
        g6 == AddEdge(g5, aggregate_index, merge_index,
                      PlanEdge(Keyed(key_struct, aggregate_struct), Forward))
    IN  [g |-> g6, idx |-> merge_index]

\* add_join, after both inputs have been added.
JoinExpiration_hour == 60 * 60

JoinExpiration == 24 * 60 * 60

JoinKeyType(key_struct, side_type) == Keyed(key_struct, side_type)

AddJoinNodes(g, left_index, right_index, left_type, right_type, has_window, op) ==
    LET join_type == op.join_type
        key_struct == JoinKeyStruct
        left_key_index == Len(g.nodes) + 1
        g1 == InsertOperator(g, [op |-> "KeyProjection"],
                             JoinKeyType(key_struct, left_type))
        right_key_index == Len(g1.nodes) + 1
        g2 == InsertOperator(g1, [op |-> "KeyProjection"],
                             JoinKeyType(key_struct, right_type))
        g3 == AddEdge(g2, left_index, left_key_index,
                      PlanEdge(Unkeyed(left_type), Forward))
        g4 == AddEdge(g3, right_index, right_key_index,
                      PlanEdge(Unkeyed(right_type), Forward))
        join_node ==
            IF has_window
            THEN [op |-> "InstantJoin", join_type |-> join_type]
            ELSE [op |-> "JoinWithExpiration", left_expiration |-> JoinExpiration,
                  right_expiration |-> JoinExpiration, join_type |-> join_type]
        join_output_type ==
            IF has_window
            THEN KeyedListPair(key_struct, left_type, right_type)
            ELSE KeyedPair(key_struct, left_type, right_type)
        post_join_node ==
            IF has_window
            THEN [op |-> "JoinListFlatten", join_type |-> join_type,
                  left |-> left_type, right |-> right_type]
            ELSE [op |-> "JoinPairFlatten", join_type |-> join_type,
                  left |-> left_type, right |-> right_type]
        join_index == Len(g4.nodes) + 1
        g5 == InsertOperator(g4, join_node, join_output_type)
        g6 == AddEdge(g5, left_key_index, join_index,
                      PlanEdge(Keyed(key_struct, left_type), ShuffleJoin(0)))
        g7 == AddEdge(g6, right_key_index, join_index,
                      PlanEdge(Keyed(key_struct, right_type), ShuffleJoin(1)))
        post_join_type == JoinOutputStruct(join_type, left_type, right_type)
        post_join_index == Len(g7.nodes) + 1
        g8 == InsertOperator(g7, post_join_node, Unkeyed(post_join_type))
        g9 == AddEdge(g8, join_index, post_join_index,
                      PlanEdge(join_output_type, Forward))
    IN  [g |-> g9, idx |-> post_join_index]

\* add_window, after the input has been added.
WindowKeyType(partition_struct, input_type) == Keyed(partition_struct, input_type)

AddWindowNodes(g, input_index, input_type, op) ==
    LET result_type == WindowResultType(input_type, op.field_name)
        partition_struct == PartitionStruct
        partition_key_index == Len(g.nodes) + 1
        g1 == InsertOperator(g, [op |-> "KeyProjection"],
                             WindowKeyType(partition_struct, input_type))
        g2 == AddEdge(g1, input_index, partition_key_index,
                      PlanEdge(Unkeyed(input_type), Forward))
        window_function_index == Len(g2.nodes) + 1
        g3 == InsertOperator(g2, [op |-> "WindowFunction", field_name |-> op.field_name,
                                  result_struct |-> result_type],
                             Keyed(partition_struct, result_type))
        g4 == AddEdge(g3, partition_key_index, window_function_index,
                      PlanEdge(Keyed(partition_struct, input_type), Shuffle))
        unkey_index == Len(g4.nodes) + 1
        g5 == InsertOperator(g4, [op |-> "Unkey"], Unkeyed(result_type))
        g6 == AddEdge(g5, window_function_index, unkey_index,
                      PlanEdge(Keyed(partition_struct, result_type), Forward))
    IN  [g |-> g6, idx |-> unkey_index]

\* add_record_transform, after the input has been added.
AddRecordTransformNode(g, input_index, input_type, op) ==
    LET return_type == TransformOutputStruct(op.transform, input_type)
        plan_node_index == Len(g.nodes) + 1
        g1 == InsertOperator(g, [op |-> "RecordTransform", transform |-> op.transform],
                             Unkeyed(return_type))
        g2 == AddEdge(g1, input_index, plan_node_index,
                      PlanEdge(Unkeyed(input_type), Forward))
    IN  [g |-> g2, idx |-> plan_node_index]

\* add_sql_operator, with the recursion of add_aggregator, add_join,
\* add_window and add_record_transform into their inputs.
RECURSIVE AddSqlOperator(_, _)
AddSqlOperator(g, op) ==
    CASE op.op = "Source" -> AddSqlSource(g, op.name)
      [] op.op = "Aggregator" ->
            LET input_type == ReturnType(op.input)
                r == AddSqlOperator(g, op.input)
            IN  AddAggregatorNodes(r.g, r.idx, input_type, op)
      [] op.op = "JoinOperator" ->
            LET left_type == ReturnType(op.left)
                right_type == ReturnType(op.right)
                has_window == HasWindow(op.left)
                l == AddSqlOperator(g, op.left)
                r == AddSqlOperator(l.g, op.right)
            IN  AddJoinNodes(r.g, l.idx, r.idx, left_type, right_type, has_window, op)
      [] op.op = "Window" ->
            LET input_type == ReturnType(op.input)
                r == AddSqlOperator(g, op.input)
            IN  AddWindowNodes(r.g, r.idx, input_type, op)
      [] op.op = "RecordTransform" ->
            LET input_type == ReturnType(op.input)
                r == AddSqlOperator(g, op.input)
            IN  AddRecordTransformNode(r.g, r.idx, input_type, op)

\* PlanGraph::new
SinkEdge(edge_type) == PlanEdge(edge_type, Forward)

PlanGraphNew(op) ==
    LET r == AddSqlOperator(EmptyGraph, op)
        result_index == r.idx
        edge_type == r.g.nodes[result_index].output_type
        sink_index == Len(r.g.nodes) + 1
        g1 == InsertOperator(r.g, [op |-> "StreamOperator", name |-> "sink"], edge_type)
    IN  AddEdge(g1, result_index, sink_index, SinkEdge(edge_type))


(***************************************************************************)
(* Emission: get_program_from_operator_with_plan.  StructDef's methods are *)
(* defined in types.rs: a struct with a name goes by that name, a struct   *)
(* without one by a name generated from its fields.  In this model the     *)
(* structs of the source tables are the named ones.                        *)
(***************************************************************************)
\* StructDef::struct_name
StructName(s) ==
    IF s.name \in SourceNames THEN <<s.name>> ELSE <<"generated_struct", s.fields>>

\* StructDef::all_structs: the struct and the structs of its fields; no
\* field of the structs enumerated here holds a struct.
AllStructs(s) == {s}

\* SqlOperator::merge_struct_type
MergeStructType(key_struct, value_struct) ==
    StructDef("merge_struct", <<StructField("key", StructName(key_struct), FALSE),
                               StructField("aggregate", StructName(value_struct), FALSE)>>)

\* JoinType::join_struct_type
JoinStructType(join_type, left, right) ==
    StructDef("join_struct", <<StructField("left", StructName(left), FALSE),
                              StructField("right", StructName(right), FALSE)>>)

\* PlanType::get_all_types
PlanTypeAllTypes(t) ==
    CASE t.kind = "Unkeyed" -> AllStructs(t.value[1])
      [] t.kind = "Keyed" -> AllStructs(t.key[1]) \cup AllStructs(t.value[1])
      [] t.kind \in {"KeyedPair", "KeyedListPair"} ->
            AllStructs(t.key[1]) \cup AllStructs(t.value[1]) \cup AllStructs(t.value[2])
      [] t.kind = "KeyedLiteralTypeValue" -> AllStructs(t.key[1])

\* PlanType::get_key_struct_names
GetKeyStructNames(t) ==
    IF t.kind = "Unkeyed" THEN {}
    ELSE {StructName(k) : k \in AllStructs(t.key[1])}

\* PlanNode::get_all_types
GetAllTypes(node) ==
    PlanTypeAllTypes(node.output_type) \cup
    CASE node.operator.op = "WindowMerge" ->
            {MergeStructType(node.operator.key_struct, node.operator.value_struct)}
      [] node.operator.op \in {"JoinPairFlatten", "JoinListFlatten"} ->
            {JoinStructType(node.operator.join_type, node.operator.left,
                            node.operator.right)}
      [] node.operator.op = "FusedRecordTransform" ->
            UNION {PlanTypeAllTypes(node.operator.output_types[i]) :
                      i \in 1..Len(node.operator.output_types)}
      [] OTHER -> {}

\* optimize: a record transform whose only input is a record transform is
\* fused with it; the fused node keeps the output types of its parts.
IsRecordTransform(g, n) == g.nodes[n].operator.op = "RecordTransform"

Pred(g, n) == {g.edges[i].source : i \in {j \in 1..Len(g.edges) : g.edges[j].target = n}}

FusesWithInput(g, n) ==
    /\ IsRecordTransform(g, n)
    /\ \E p \in Pred(g, n) : IsRecordTransform(g, p)

FusesWithOutput(g, n) ==
    /\ IsRecordTransform(g, n)
    /\ \E i \in 1..Len(g.edges) : g.edges[i].source = n /\ FusesWithInput(g, g.edges[i].target)

\* The record transforms that end in node n, first one first.
RECURSIVE FusedChain(_, _)
FusedChain(g, n) ==
    IF FusesWithInput(g, n)
    THEN Append(FusedChain(g, CHOOSE p \in Pred(g, n) : TRUE), n)
    ELSE <<n>>

\* The nodes of the optimized graph.
OptimizedNodes(g) ==
    {IF FusesWithInput(g, n)
     THEN LET chain == FusedChain(g, n)
          IN  PlanNode([op |-> "FusedRecordTransform",
                        expressions |-> [i \in 1..Len(chain) |->
                                            g.nodes[chain[i]].operator.transform],
                        output_types |-> [i \in 1..Len(chain) |->
                                            g.nodes[chain[i]].output_type]],
                       g.nodes[n].output_type)
     ELSE g.nodes[n] : n \in {m \in 1..Len(g.nodes) : ~FusesWithOutput(g, m)}}

\* StructDef::def: the definition of a struct, with hashing and equality
\* when it is a key.
Def(s, is_key) ==
    [kind |-> "struct", name |-> StructName(s), fields |-> s.fields, is_key |-> is_key]

\* A definition held in source_defs under `name`: the one add_connector_table
\* stored for the table the query reads ("current"), or for a table of that
\* name that insert_table has replaced since ("stale").
SourceDefStates == {"none", "current", "stale"}

SourceDef(name, state) ==
    [kind |-> "source_def", name |-> <<name>>, fields |-> <<state>>, is_key |-> FALSE]

NoSourceDefs == [n \in SourceNames |-> "none"]

\* The source_defs that are enumerated: the same state under every name.
SourceDefMaps == {[n \in SourceNames |-> state] : state \in SourceDefStates}

NoProgram == [other_defs |-> {}, edges |-> <<>>, built |-> FALSE]

\* The definitions of the sources that are in the graph.
SourcesFilter(g, k) == g.sources[k] # 0

IntoStreamEdge_pair(edge) ==
    LET t == edge.edge_data_type
    IN  [key |-> IF t.kind = "Unkeyed" THEN <<"()">> ELSE StructName(t.key[1]),
         value |-> IF t.kind \in {"KeyedPair", "KeyedListPair"}
                   THEN <<"(", StructName(t.value[1]), ",", StructName(t.value[2]), ")">>
                   ELSE IF t.kind = "KeyedLiteralTypeValue" THEN t.value[1]
                   ELSE StructName(t.value[1]),
         typ |-> edge.edge_type]

\* PlanEdge::into_stream_edge
IntoStreamEdge(edge) ==
    LET t == edge.edge_data_type
    IN  CASE t.kind = "Unkeyed" ->
                [key |-> <<"()">>, value |-> StructName(t.value[1]),
                 typ |-> edge.edge_type]
          [] t.kind = "Keyed" ->
                [key |-> StructName(t.key[1]), value |-> StructName(t.value[1]),
                 typ |-> edge.edge_type]
          [] t.kind = "KeyedPair" ->
                [key |-> StructName(t.key[1]),
                 value |-> <<"(", StructName(t.value[1]), ",", StructName(t.value[2]), ")">>,
                 typ |-> edge.edge_type]
          [] t.kind = "KeyedListPair" ->
                [key |-> StructName(t.key[1]),
                 value |-> <<"(Vec<", StructName(t.value[1]), ">,Vec<",
                             StructName(t.value[2]), ">)">>,
                 typ |-> edge.edge_type]
          [] t.kind = "KeyedLiteralTypeValue" ->
                [key |-> StructName(t.key[1]), value |-> t.value[1],
                 typ |-> edge.edge_type]

ProgramOf(g, defs) ==
    LET nodes == OptimizedNodes(g)
        key_structs == UNION {GetKeyStructNames(node.output_type) : node \in nodes}
        types == UNION {GetAllTypes(node) : node \in nodes}
        other_defs ==
            {Def(st, StructName(st) \in key_structs) : st \in types}
            \cup {SourceDef(k, defs[k]) :
                    k \in {n \in DOMAIN defs : defs[n] # "none" /\ SourcesFilter(g, n)}}
    IN  [other_defs |-> other_defs,
         edges |-> [i \in 1..Len(g.edges) |-> IntoStreamEdge(g.edges[i].weight)],
         built |-> TRUE]


(***************************************************************************)
(* The artifact-builder service (arroyo-compiler-service).                 *)
(***************************************************************************)
Reqs == 1..NumReqs

NoIdle == -1

\* The steps of CompileService::compile, run while the lock is held.
CompilePcs == {"write", "cargo", "wasm", "put_pipeline", "put_wasm"}

\* A compile_query request: where it is, whether req.wasm_fns is non-empty,
\* the tools that exited with status zero, the stderr of the tool that did
\* not, and what compile returned: the error's message or the artifact paths.
NewReq ==
    [pc |-> "new", wasm_fns |-> FALSE, built |-> {}, stderr |-> <<>>,
     result |-> "none", message |-> <<>>, paths |-> <<>>]

EmptyBuildDir ==
    [pipeline_src |-> 0, types_src |-> 0, wasm_src |-> 0, pipeline_bin |-> 0, wasm_pkg |-> 0]

SvcIdle ==
    /\ idle_time = NoIdle
    /\ elapsed = 0
    /\ watcher = "none"
    /\ exited = FALSE
    /\ exit_code = 0
    /\ lock = 0
    /\ req = [r \in Reqs |-> NewReq]
    /\ build_dir = EmptyBuildDir
    /\ storage = {}

\* The sequences over S of length at most n.
SeqsUpTo(S, n) == UNION {[1..k -> S] : k \in 0..n}

NoRequest ==
    [config |-> "None", parallelism |-> 1, preview |-> FALSE, name |-> "", udfs |-> <<>>]

NoAuth == [can_create_programs |-> FALSE, max_parallelism |-> 1, max_operators |-> 1]

EmptySchema == [udfs |-> 0, tables |-> FALSE]

EmptyDb == [pipelines |-> <<>>, definitions |-> <<>>, connection_tables |-> <<>>]

NoResult == [status |-> "none", cause |-> "none", message |-> <<>>]

ApiIdle ==
    /\ api_req = NoRequest
    /\ auth = NoAuth
    /\ api_pc = "idle"
    /\ api_i = 0
    /\ schema = EmptySchema
    /\ sql_compiled = FALSE
    /\ program = <<>>
    /\ compiled = <<>>
    /\ errors = <<>>
    /\ connections = <<>>
    /\ is_preview = FALSE
    /\ db = EmptyDb
    /\ api_result = NoResult

\* A Result: Ok(value) or Err(error); Err holds `none`, a value of the type
\* of the Ok values that stands for no value.
Result(ok, value, error) == [ok |-> ok, value |-> value, error |-> error]
Ok(value) == Result(TRUE, value, "")
Err(error, none) == Result(FALSE, none, error)

\* UdfOpts with every option left out.
DefaultOpts == [async_results_ordered |-> FALSE]

\* A call that has not returned.
NotCalled(none) == Err("not called", none)

TomlIdle ==
    /\ text = <<>>
    /\ dependencies = NotCalled(<<>>)
    /\ udf_opts = NotCalled(DefaultOpts)

\* The scalar functions ArroyoSchemaProvider::new registers.
BuiltinFunctions ==
    {"hop", "tumble", "session", "unnest", "get_first_json_object", "get_json_objects",
     "extract_json", "extract_json_string"}

\* No call of add_rust_udf is under way.
NoBody == [parses |-> FALSE, items |-> <<>>, text |-> <<"no call">>]

Maps(f, a, d) == [functions |-> f, aggregate_functions |-> a, udf_defs |-> d]

UdfIdle ==
    /\ functions = BuiltinFunctions
    /\ aggregate_functions = {}
    /\ udf_defs = {}
    /\ body = NoBody
    /\ udf_result = NotCalled("")
    /\ before = Maps(BuiltinFunctions, {}, {})

EmptyProvider == [tables |-> {}, source_defs |-> {}]

\* No get_table call has been made.
NoLookup == [name |-> <<>>, found |-> FALSE, table |-> [name |-> <<>>, kind |-> "", id |-> 0]]

CatIdle ==
    /\ schema_provider = EmptyProvider
    /\ inserted = <<>>
    /\ lookup = NoLookup

SqlIdle ==
    /\ query = <<>>
    /\ sql_pc = "idle"
    /\ inserts = <<>>
    /\ insert_nodes = <<>>
    /\ plan_ops = <<>>
    /\ sql_result = NotCalled("")

\* No schema text has been handed to convert_avro_schema.
NoAvroText ==
    [parses |-> FALSE,
     schema |-> [kind |-> "null", name |-> "", variants |-> <<>>, fields |-> <<>>]]

NoAvroResult == [ok |-> FALSE, fields |-> <<>>, error |-> "not called"]

AvroIdle ==
    /\ avro_text = NoAvroText
    /\ avro_result = NoAvroResult

NoValue == [v |-> 0]

NoConnResult == "none"

ConnIdle ==
    /\ conn_call = [op |-> "", config |-> "", table |-> ""]
    /\ conn_pc = "idle"
    /\ conn_parsed = <<>>
    /\ conn_config = NoValue
    /\ conn_table = NoValue
    /\ typed_calls = <<>>
    /\ progress = <<>>
    /\ conn_result = NoConnResult

NoStreamEdge == [key |-> <<>>, value |-> <<>>, typ |-> <<>>]

EdgeIdle ==
    /\ plan_edge = [edge_data_type |-> [kind |-> "", key |-> <<>>, value |-> <<>>],
                    edge_type |-> <<>>]
    /\ stream_edge = NoStreamEdge

\* No FusedRecordTransform has been handed to to_operator.
NoFused == [expressions |-> <<>>, output_types |-> <<>>, expression_return_type |-> ""]

NoOperator ==
    [panic |-> FALSE, name |-> "", stmts |-> <<>>, tail |-> <<>>, return_type |-> ""]

FusedIdle ==
    /\ fused = NoFused
    /\ fused_operator = NoOperator

NoCqResult == [ok |-> FALSE, error |-> "not called"]

CqIdle ==
    /\ cq_query = [blank |-> TRUE, operator |-> [op |-> "Source", name |-> ""]]
    /\ cq_pc = "idle"
    /\ cq_task = "none"
    /\ cq_result = NoCqResult

(***************************************************************************)
(* The plan-graph specification: a tree is chosen, PlanGraph::new builds   *)
(* its graph.                                                              *)
(***************************************************************************)
PlanIdle ==
    /\ operator = SourceOp("a")
    /\ plan_graph = EmptyGraph
    /\ plan_built = FALSE
    /\ source_defs = NoSourceDefs
    /\ sql_program = NoProgram

InitPlan ==
    /\ operator \in Trees(MaxDepth)
    /\ plan_graph = EmptyGraph
    /\ plan_built = FALSE
    /\ source_defs = NoSourceDefs
    /\ sql_program = NoProgram
    /\ SvcIdle
    /\ ApiIdle
    /\ TomlIdle
    /\ UdfIdle
    /\ SqlIdle
    /\ CatIdle
    /\ AvroIdle
    /\ ConnIdle
    /\ EdgeIdle
    /\ FusedIdle
    /\ CqIdle

New ==
    /\ ~plan_built
    /\ plan_graph' = PlanGraphNew(operator)
    /\ plan_built' = TRUE
    /\ UNCHANGED <<operator, source_defs, sql_program, notPlan>>

\* get_program_from_operator_with_plan, after PlanGraph::new: the graph is
\* optimized, the struct definitions are collected and the graph is turned
\* into the Program's graph.  The schema provider it is handed holds, for
\* each table name, no definition, the definition of the table the query
\* reads, or the definition of a table that was replaced afterwards.
GetProgramFromOperatorWithPlan ==
    /\ plan_built
    /\ sql_program = NoProgram
    /\ source_defs' \in SourceDefMaps
    /\ sql_program' = ProgramOf(plan_graph, source_defs')
    /\ UNCHANGED <<operator, plan_graph, plan_built, notPlan>>

NextPlan ==
    \/ New
    \/ GetProgramFromOperatorWithPlan

SpecPlan == InitPlan /\ [][NextPlan]_vars

Spec == SpecPlan

\* main and start_service: last_used is set to now, the watcher is spawned
\* when IDLE_SHUTDOWN_MS is set.
InitSvc ==
    /\ idle_time \in {NoIdle} \cup (0..MaxIdle)
    /\ elapsed = 0
    /\ watcher = IF idle_time = NoIdle THEN "none" ELSE "check"
    /\ exited = FALSE
    /\ exit_code = 0
    /\ lock = 0
    /\ req = [r \in Reqs |-> NewReq]
    /\ build_dir = EmptyBuildDir
    /\ storage = {}
    /\ PlanIdle
    /\ ApiIdle
    /\ TomlIdle
    /\ UdfIdle
    /\ SqlIdle
    /\ CatIdle
    /\ AvroIdle
    /\ ConnIdle
    /\ EdgeIdle
    /\ FusedIdle
    /\ CqIdle

\* The watcher's test: the time since last_used exceeds idle_time.
IdleExceeded_reversed(e, idle) == e < idle

IdleExceeded(e, idle) == e > idle

\* One pass of the watcher's loop: exit(0), or sleep for a second.
WatcherCheck ==
    /\ ~exited
    /\ watcher = "check"
    /\ IF IdleExceeded(elapsed, idle_time)
       THEN /\ exited' = TRUE
            /\ exit_code' = 0
            /\ UNCHANGED watcher
       ELSE /\ watcher' = "sleep"
            /\ UNCHANGED <<exited, exit_code>>
    /\ UNCHANGED <<idle_time, elapsed, lock, req, build_dir, storage, notSvc>>

\* A second passes: a sleeping watcher wakes.
Tick ==
    /\ ~exited
    /\ elapsed <= MaxIdle \/ watcher = "sleep"
    /\ elapsed' = IF elapsed <= MaxIdle THEN elapsed + 1 ELSE elapsed
    /\ watcher' = IF watcher = "sleep" THEN "check" ELSE watcher
    /\ UNCHANGED <<idle_time, exited, exit_code, lock, req, build_dir, storage, notSvc>>

\* compile_query is called: last_used is set to now.
Arrive(r) ==
    /\ ~exited
    /\ req[r].pc = "new"
    /\ \E w \in BOOLEAN : req' = [req EXCEPT ![r].pc = "lock", ![r].wasm_fns = w]
    /\ elapsed' = 0
    /\ UNCHANGED <<idle_time, watcher, exited, exit_code, lock, build_dir, storage, notSvc>>

\* self.lock.lock().await returns only while no other request holds the lock.
LockFree_always == TRUE

LockFree == lock = 0

AcquireLock(r) ==
    /\ ~exited
    /\ req[r].pc = "lock"
    /\ LockFree
    /\ lock' = r
    /\ req' = [req EXCEPT ![r].pc = "write"]
    /\ UNCHANGED <<idle_time, elapsed, watcher, exited, exit_code, build_dir, storage, notSvc>>

\* The stderr of a tool, byte by byte; "xFF" is a byte that is not UTF-8.
Stderrs == {<<"e">>, <<"xFF", "e">>}

FromUtf8Lossy_none(bytes) == <<>>

\* String::from_utf8_lossy: a byte that is not UTF-8 becomes U+FFFD.
FromUtf8Lossy(bytes) ==
    [i \in 1..Len(bytes) |-> IF bytes[i] = "xFF" THEN "uFFFD" ELSE bytes[i]]

\* bail!("Failed to compile job: {}", ..) and bail!("Failed to compile wasm: {}", ..)
BuildError(prefix, stderr) == <<prefix>> \o FromUtf8Lossy(stderr)

\* CompileQueryResp: pipeline_path and wasm_fns_path under the job's base.
ArtifactPaths(r) == <<<<r, "pipeline">>, <<r, "wasm_fns_bg.wasm">>>>

\* compile_query returns: the request ends and _guard is dropped.
Return(r, result, stderr, message, paths) ==
    /\ req' = [req EXCEPT ![r].pc = "done", ![r].result = result,
                          ![r].stderr = stderr, ![r].message = message,
                          ![r].paths = paths]
    /\ lock' = IF lock = r THEN 0 ELSE lock

\* compile_query returns an error that is not a build failure.
Finish(r, result) == Return(r, result, <<>>, <<result>>, <<>>)

\* compile: the three sources are written into the build directory.
WriteSources(r) ==
    /\ ~exited
    /\ req[r].pc = "write"
    /\ \/ /\ build_dir' = [build_dir EXCEPT !.pipeline_src = r, !.types_src = r,
                                            !.wasm_src = r]
          /\ req' = [req EXCEPT ![r].pc = "cargo"]
          /\ UNCHANGED lock
       \/ /\ Finish(r, "io_error")
          /\ UNCHANGED build_dir
    /\ UNCHANGED <<idle_time, elapsed, watcher, exited, exit_code, storage, notSvc>>

\* compile: cargo build; a non-zero exit status ends the request.
CargoBuild(r) ==
    /\ ~exited
    /\ req[r].pc = "cargo"
    /\ \/ /\ build_dir' = [build_dir EXCEPT !.pipeline_bin = build_dir.pipeline_src]
          /\ req' = [req EXCEPT ![r].pc = IF req[r].wasm_fns THEN "wasm"
                                          ELSE "put_pipeline",
                                ![r].built = req[r].built \cup {"cargo"}]
          /\ UNCHANGED lock
       \/ /\ \E stderr \in Stderrs :
                Return(r, "cargo_failed", stderr,
                       BuildError("Failed to compile job: ", stderr), <<>>)
          /\ UNCHANGED build_dir
    /\ UNCHANGED <<idle_time, elapsed, watcher, exited, exit_code, storage, notSvc>>

\* compile: wasm-pack build, run only for non-empty wasm_fns; the handler
\* panics when wasm-pack cannot be started, and unwinding drops _guard.
WasmPack(r) ==
    /\ ~exited
    /\ req[r].pc = "wasm"
    /\ \/ /\ build_dir' = [build_dir EXCEPT !.wasm_pkg = build_dir.wasm_src]
          /\ req' = [req EXCEPT ![r].pc = "put_pipeline",
                                ![r].built = req[r].built \cup {"wasm-pack"}]
          /\ UNCHANGED lock
       \/ /\ \/ \E stderr \in Stderrs :
                   Return(r, "wasm_failed", stderr,
                          BuildError("Failed to compile wasm: ", stderr), <<>>)
             \/ Finish(r, "panic")
          /\ UNCHANGED build_dir
    /\ UNCHANGED <<idle_time, elapsed, watcher, exited, exit_code, storage, notSvc>>

\* compile: the pipeline binary is read and put to storage.
PutPipeline(r) ==
    /\ ~exited
    /\ req[r].pc = "put_pipeline"
    /\ \/ /\ storage' = storage \cup
                 {[job |-> r, kind |-> "pipeline", built_from |-> build_dir.pipeline_bin]}
          /\ req' = [req EXCEPT ![r].pc = "put_wasm"]
          /\ UNCHANGED lock
       \/ /\ Finish(r, "io_error")
          /\ UNCHANGED storage
    /\ UNCHANGED <<idle_time, elapsed, watcher, exited, exit_code, build_dir, notSvc>>

\* compile: wasm_fns_bg.wasm is read and put to storage; the read fails
\* when the file does not exist.
PutWasm(r) ==
    /\ ~exited
    /\ req[r].pc = "put_wasm"
    /\ \/ /\ build_dir.wasm_pkg # 0
          /\ storage' = storage \cup
                 {[job |-> r, kind |-> "wasm", built_from |-> build_dir.wasm_pkg]}
          /\ Return(r, "ok", <<>>, <<>>, ArtifactPaths(r))
       \/ /\ Finish(r, "io_error")
          /\ UNCHANGED storage
    /\ UNCHANGED <<idle_time, elapsed, watcher, exited, exit_code, build_dir, notSvc>>

NextSvc ==
    \/ WatcherCheck
    \/ Tick
    \/ \E r \in Reqs : Arrive(r)
    \/ \E r \in Reqs : AcquireLock(r)
    \/ \E r \in Reqs : WriteSources(r)
    \/ \E r \in Reqs : CargoBuild(r)
    \/ \E r \in Reqs : WasmPack(r)
    \/ \E r \in Reqs : PutPipeline(r)
    \/ \E r \in Reqs : PutWasm(r)

SpecSvc == InitSvc /\ [][NextSvc]_vars

\* The tokio runtime runs a task that is ready, and time passes.
SpecSvcFair == SpecSvc /\ WF_vars(Tick) /\ WF_vars(WatcherCheck)

BuildFailed(r) == req[r].result \in {"cargo_failed", "wasm_failed"}

Uploaded(r) == {a \in storage : a.job = r}

\* C18: when cargo exits with a non-zero status, or wasm-pack does for a
\* request with non-empty wasm_fns, compile returns an error whose message
\* contains the stderr of the tool (as text: every byte that is UTF-8 as it
\* is, in order), nothing is uploaded for the request and no artifact paths
\* are returned; an artifact is uploaded only after every build step of its
\* request has succeeded.
C18_BuildFailure ==
    /\ \A r \in Reqs :
          BuildFailed(r) =>
              /\ req[r].pc = "done"
              /\ Len(req[r].message) = Len(req[r].stderr) + 1
              /\ \A i \in 1..Len(req[r].stderr) :
                    req[r].stderr[i] # "xFF" => req[r].message[i + 1] = req[r].stderr[i]
              /\ Uploaded(r) = {}
              /\ req[r].paths = <<>>
              /\ req[r].result = "wasm_failed" => req[r].wasm_fns
    /\ \A a \in storage :
          /\ "cargo" \in req[a.job].built
          /\ req[a.job].wasm_fns => "wasm-pack" \in req[a.job].built
    /\ \A r \in Reqs : req[r].paths # <<>> => req[r].result = "ok"

\* one request has failed in wasm-pack after another uploaded its artifacts
C18_Witness ==
    /\ req[1].result = "ok"
    /\ Uploaded(1) # {}
    /\ req[2].result = "wasm_failed"
    /\ req[2].stderr = <<"xFF", "e">>

\* a request has failed in cargo
C18_WitnessCargo ==
    /\ req[1].result = "cargo_failed"
    /\ req[1].stderr = <<"e">>

\* C3: at most one request executes CompileService::compile at any time, it
\* is the one holding the lock, and a request that has finished, with
\* success or with an error, no longer holds it.
C3_OneActiveCompile ==
    /\ Cardinality({r \in Reqs : req[r].pc \in CompilePcs}) <= 1
    /\ \A r \in Reqs : req[r].pc \in CompilePcs => lock = r
    /\ \A r \in Reqs : req[r].pc = "done" => lock # r

\* One request has finished with an error and released the lock; a second
\* one, which had waited for it, now holds the lock and compiles.
C3_Witness ==
    \E r1, r2 \in Reqs :
        /\ req[r1].pc = "done" /\ req[r1].result = "cargo_failed"
        /\ req[r2].pc = "cargo" /\ lock = r2

\* A request waits at the lock while another one compiles.
C3_Waiting ==
    \E r1, r2 \in Reqs : req[r1].pc = "lock" /\ req[r2].pc \in CompilePcs

\* C4: with IDLE_SHUTDOWN_MS set, once more than the idle interval has
\* passed since the last compile_query arrived the service exits with code
\* 0 (unless a new request arrives first), and it exits for no shorter
\* idleness; with IDLE_SHUTDOWN_MS not set it never exits.
C4_IdleExit ==
    /\ (idle_time # NoIdle /\ elapsed > idle_time)
            ~> ((exited /\ exit_code = 0) \/ elapsed <= idle_time)
    /\ [](idle_time = NoIdle => ~exited)
    /\ [](exited => exit_code = 0 /\ elapsed > idle_time)

\* The service has exited after a request had arrived and finished.
C4_Witness ==
    /\ exited /\ exit_code = 0 /\ idle_time = MaxIdle
    /\ \E r \in Reqs : req[r].pc = "done"

Nodes == plan_graph.nodes
Edges == plan_graph.edges
EdgeIds == 1..Len(Edges)

\* C1: in the graph PlanGraph::new builds, every edge's edge_data_type is
\* the output_type of the edge's source node, also on the edge that leaves
\* a WindowMerge node.
C1_EdgeTypeIsSourceOutput ==
    plan_built =>
        \A i \in EdgeIds :
            Edges[i].weight.edge_data_type = Nodes[Edges[i].source].output_type

\* C2: every node with an outgoing Shuffle or ShuffleJoin edge has a keyed
\* output PlanType.
C2_ShuffleSourceIsKeyed ==
    plan_built =>
        \A i \in EdgeIds :
            Edges[i].weight.edge_type[1] \in {"Shuffle", "ShuffleJoin"}
                => Nodes[Edges[i].source].output_type.kind \in KeyedKinds

\* A built graph with an aggregator's Shuffle edge and a join's two
\* ShuffleJoin edges.
C2_Witness ==
    /\ plan_built
    /\ \E i \in EdgeIds : /\ Edges[i].weight.edge_type = Shuffle
                          /\ Nodes[Edges[i].target].operator.op = "WindowAggregate"
    /\ \E i \in EdgeIds : Edges[i].weight.edge_type = ShuffleJoin(0)
    /\ \E i \in EdgeIds : Edges[i].weight.edge_type = ShuffleJoin(1)

(***************************************************************************)
(* The emitted struct definitions.                                         *)
(***************************************************************************)
\* The structs of a PlanType.
StructsOf(t) ==
    {t.key[i] : i \in 1..Len(t.key)}
    \cup (IF t.kind = "KeyedLiteralTypeValue" THEN {}
          ELSE {t.value[i] : i \in 1..Len(t.value)})

\* The StructDefs that can be reached from the nodes of the graph: those of
\* the output types, the merge struct of a WindowMerge, the joined struct
\* of a flatten node.
ReachableStructs ==
    UNION {StructsOf(Nodes[n].output_type) : n \in 1..Len(Nodes)}
    \cup {MergeStructType(Nodes[n].operator.key_struct, Nodes[n].operator.value_struct) :
            n \in {m \in 1..Len(Nodes) : Nodes[m].operator.op = "WindowMerge"}}
    \cup {JoinStructType(Nodes[n].operator.join_type, Nodes[n].operator.left,
                         Nodes[n].operator.right) :
            n \in {m \in 1..Len(Nodes) :
                      Nodes[m].operator.op \in {"JoinPairFlatten", "JoinListFlatten"}}}

StructDefs == {d \in sql_program.other_defs : d.kind = "struct"}

EmittedSourceDefs == {d \in sql_program.other_defs : d.kind = "source_def"}

\* Every reachable struct has a definition and every struct definition is
\* of a reachable struct.
C13_Reachable ==
    sql_program.built =>
        {<<d.name, d.fields>> : d \in StructDefs}
            = {<<StructName(st), st.fields>> : st \in ReachableStructs}

\* The source definitions are those of the tables the query reads.
C13_SourcesRead ==
    sql_program.built =>
        /\ \A d \in EmittedSourceDefs :
              /\ plan_graph.sources[d.name[1]] # 0
              /\ d.fields = <<"current">>
        /\ \A n \in SourceNames :
              (plan_graph.sources[n] # 0 /\ source_defs[n] = "current")
                  => SourceDef(n, "current") \in sql_program.other_defs

\* No two struct definitions have the same struct name.
C13_NoDuplicateNames ==
    sql_program.built =>
        \A d1, d2 \in StructDefs : d1.name = d2.name => d1 = d2

\* C13: the struct definitions get_program_from_operator_with_plan emits
\* are exactly those of the structs reachable from the nodes of the
\* optimized graph, together with the definitions of the sources in the
\* graph: none for a table the query does not read, none missing, no two
\* with the same struct name.
C13_ExactDefinitions ==
    /\ C13_Reachable
    /\ C13_SourcesRead
    /\ C13_NoDuplicateNames

\* A program was emitted for a query that reads table a and not table b,
\* with a definition stored for each.
C13_UnreadTable ==
    /\ sql_program.built
    /\ plan_graph.sources["a"] # 0 /\ plan_graph.sources["b"] = 0
    /\ source_defs = [n \in SourceNames |-> "current"]
    /\ EmittedSourceDefs = {SourceDef("a", "current")}

(***************************************************************************)
(* create_pipeline and compile_sql.  A program is modelled by the sequence *)
(* of its nodes' operators.                                                *)
(***************************************************************************)
Udfs ==
    {[language |-> "Rust", definition |-> "valid"],
     [language |-> "Rust", definition |-> "invalid"],
     [language |-> "None", definition |-> "valid"]}

Requests ==
    {[config |-> "None", parallelism |-> 1, preview |-> FALSE, name |-> n, udfs |-> <<>>] :
        n \in {"", "p"}}
    \cup {[config |-> "Program", parallelism |-> 1, preview |-> FALSE, name |-> n,
           udfs |-> <<>>] : n \in {"", "p"}}
    \cup [config : {"Sql"}, parallelism : 1..MaxParallelism, preview : BOOLEAN,
          name : {"", "p"}, udfs : SeqsUpTo(Udfs, MaxUdfs)]

AuthData ==
    [can_create_programs : BOOLEAN, max_parallelism : 1..MaxParallelism,
     max_operators : 1..MaxNodes]

ConnectorSink(connector) == [op |-> "ConnectorSink", connector |-> connector]

WebSink == ConnectorSink("web")

Operators ==
    {[op |-> "ConnectorSource", connector |-> "kafka"],
     [op |-> "ExpressionOperator", connector |-> ""],
     ConnectorSink("kafka"),
     WebSink}

Programs == SeqsUpTo(Operators, MaxNodes) \ {<<>>}

ConnectionIds == {7, 8}

ErrorNames == {"e1", "e2"}

\* What makes parse_and_get_program fail: the errors of
\* parse_and_get_program_sync, an empty query, a panic of the spawned task.
SqlErrors == {"parse", "binding", "type", "unsupported", "empty_query"}

UserErrors == SqlErrors \cup {"udf", "udf_language", "connector_config", "plan_validation"}

Status(status, cause, message) ==
    [status |-> status, cause |-> cause, message |-> message]

RequiredField(cause, field) == Status("invalid_argument", cause, field)

LogAndMap(cause) ==
    Status(IF cause \in UserErrors THEN "invalid_argument" ELSE "internal", cause, <<>>)

HandleDbError(cause) == Status("internal", cause, <<>>)

\* create_pipeline returns Err(status).
Fail(status) ==
    /\ api_result' = status
    /\ api_pc' = "done"

\* optimize: adjacent expression operators are fused into one.
RECURSIVE Optimize(_)
Optimize(p) ==
    IF Len(p) < 2 THEN p
    ELSE IF p[1].op = "ExpressionOperator" /\ p[2].op = "ExpressionOperator"
         THEN Optimize(Tail(p))
         ELSE <<p[1]>> \o Optimize(Tail(p))

InitApi ==
    /\ api_req \in Requests
    /\ auth \in AuthData
    /\ api_pc = "config"
    /\ api_i = 0
    /\ schema = EmptySchema
    /\ sql_compiled = FALSE
    /\ program = <<>>
    /\ compiled = <<>>
    /\ errors = <<>>
    /\ connections = <<>>
    /\ is_preview = FALSE
    /\ db = EmptyDb
    /\ api_result = NoResult
    /\ PlanIdle
    /\ SvcIdle
    /\ TomlIdle
    /\ UdfIdle
    /\ SqlIdle
    /\ CatIdle
    /\ AvroIdle
    /\ ConnIdle
    /\ EdgeIdle
    /\ FusedIdle
    /\ CqIdle

\* create_pipeline: the match on req.config up to the call of compile_sql.
MatchConfig ==
    /\ api_pc = "config"
    /\ CASE api_req.config = "None" ->
                /\ Fail(RequiredField("required_field", <<"config">>))
                /\ UNCHANGED <<program, api_i>>
         [] api_req.config = "Program" ->
                IF ~auth.can_create_programs
                THEN /\ Fail(Status("invalid_argument", "plan_limit", <<>>))
                     /\ UNCHANGED <<program, api_i>>
                ELSE \/ /\ Fail(LogAndMap("decode"))
                        /\ UNCHANGED <<program, api_i>>
                     \/ /\ program' \in Programs
                        /\ api_pc' = "optimize"
                        /\ UNCHANGED <<api_result, api_i>>
         [] api_req.config = "Sql" ->
                IF api_req.parallelism > auth.max_parallelism
                THEN /\ Fail(Status("invalid_argument", "plan_limit", <<>>))
                     /\ UNCHANGED <<program, api_i>>
                ELSE /\ api_pc' = "udfs"
                     /\ api_i' = 0
                     /\ UNCHANGED <<api_result, program>>
    /\ UNCHANGED <<api_req, auth, schema, sql_compiled, compiled, errors, connections,
                   is_preview, db, notApi>>

\* The field compile_sql names for a UDF of unknown language: udfs[i].language.
UdfLanguageField_first(i) == <<"udfs", 0, "language">>

UdfLanguageField(i) == <<"udfs", i, "language">>

\* compile_sql: one pass of the loop over sql.udfs, or its end.
RegisterUdf ==
    /\ api_pc = "udfs"
    /\ IF api_i < Len(api_req.udfs)
       THEN LET udf == api_req.udfs[api_i + 1]
            IN  CASE udf.language = "Rust" /\ udf.definition = "valid" ->
                        /\ schema' = [schema EXCEPT !.udfs = @ + 1]
                        /\ api_i' = api_i + 1
                        /\ UNCHANGED <<api_pc, api_result>>
                  [] udf.language = "Rust" /\ udf.definition = "invalid" ->
                        /\ Fail(Status("invalid_argument", "udf", <<"Could not process UDF">>))
                        /\ UNCHANGED <<schema, api_i>>
                  [] udf.language = "None" ->
                        /\ Fail(RequiredField("udf_language", UdfLanguageField(api_i)))
                        /\ UNCHANGED <<schema, api_i>>
       ELSE /\ api_pc' = "tables"
            /\ UNCHANGED <<schema, api_i, api_result>>
    /\ UNCHANGED <<api_req, auth, sql_compiled, program, compiled, errors, connections,
                   is_preview, db, notApi>>

\* compile_sql: the saved connection tables are read and added to the schema.
LoadTables ==
    /\ api_pc = "tables"
    /\ \/ /\ schema' = [schema EXCEPT !.tables = TRUE]
          /\ api_pc' = "parse"
          /\ UNCHANGED api_result
       \/ /\ \E cause \in {"db", "connector_config"} : Fail(LogAndMap(cause))
          /\ UNCHANGED schema
    /\ UNCHANGED <<api_req, auth, api_i, sql_compiled, program, compiled, errors, connections,
                   is_preview, db, notApi>>

\* compile_sql: parse_and_get_program; every error, the spawned task's panic
\* ("Something went wrong") included, is mapped to invalid_argument.
ParseAndGetProgram ==
    /\ api_pc = "parse"
    /\ sql_compiled' = TRUE
    /\ \/ /\ program' \in Programs
          /\ connections' \in SeqsUpTo(ConnectionIds, MaxConns)
          /\ is_preview' = api_req.preview
          /\ api_pc' = "optimize"
          /\ UNCHANGED api_result
       \/ /\ \E cause \in SqlErrors \cup {"panic"} :
                Fail(Status("invalid_argument", cause,
                            IF cause = "panic" THEN <<"Something went wrong">>
                            ELSE <<cause>>))
          /\ UNCHANGED <<program, connections, is_preview>>
    /\ UNCHANGED <<api_req, auth, api_i, schema, compiled, errors, db, notApi>>


\* create_pipeline: optimize, then the operator-count limit of the plan.
OptimizeAndLimit ==
    /\ api_pc = "optimize"
    /\ program' = Optimize(program)
    /\ IF Len(program') > auth.max_operators
       THEN Fail(Status("invalid_argument", "plan_limit", <<>>))
       ELSE /\ api_pc' = "validate"
            /\ UNCHANGED api_result
    /\ UNCHANGED <<api_req, auth, api_i, schema, sql_compiled, compiled, errors, connections,
                   is_preview, db, notApi>>

\* The message built from the errors: a header, then a line "  * {}" each.
ValidationMessage(errs) ==
    <<"Program validation failed:">> \o [i \in 1..Len(errs) |-> <<"  * ", errs[i]>>]

ValidationFailed_never(errs) == FALSE

ValidationFailed(errs) == errs # <<>>

\* create_pipeline: validate_graph and the failure on its errors.
ValidateGraph ==
    /\ api_pc = "validate"
    /\ errors' \in SeqsUpTo(ErrorNames, MaxErrors)
    /\ IF ValidationFailed(errors')
       THEN Fail(Status("failed_precondition", "plan_validation", ValidationMessage(errors')))
       ELSE /\ api_pc' = "preview"
            /\ UNCHANGED api_result
    /\ UNCHANGED <<api_req, auth, api_i, schema, sql_compiled, program, compiled, connections,
                   is_preview, db, notApi>>

\* The preview rewrite of one node's operator.
PreviewOperator_keep(op) == op

PreviewOperator(op) == IF op.op = "ConnectorSink" THEN WebSink ELSE op

\* create_pipeline: set_parallelism, then in preview mode every connector
\* sink becomes the web sink.
PreviewRewrite ==
    /\ api_pc = "preview"
    /\ compiled' = program
    /\ program' = IF is_preview
                  THEN [i \in 1..Len(program) |-> PreviewOperator(program[i])]
                  ELSE program
    /\ api_pc' = "encode"
    /\ UNCHANGED <<api_req, auth, api_i, schema, sql_compiled, errors, connections,
                   is_preview, db, api_result, notApi>>

\* create_pipeline: the program is encoded, then the name must not be empty.
EncodeAndName ==
    /\ api_pc = "encode"
    /\ \/ Fail(LogAndMap("encode"))
       \/ IF api_req.name = ""
          THEN Fail(RequiredField("required_field", <<"name">>))
          ELSE /\ api_pc' = "insert_pipeline"
               /\ UNCHANGED api_result
    /\ UNCHANGED <<api_req, auth, api_i, schema, sql_compiled, program, compiled, errors,
                   connections, is_preview, db, notApi>>

\* The id the database gives the pipeline row.
PipelineId == Len(db.pipelines)

\* create_pipeline: the pipeline row.
InsertPipeline ==
    /\ api_pc = "insert_pipeline"
    /\ \/ /\ db' = [db EXCEPT !.pipelines = Append(@,
                        [id |-> Len(@) + 1, name |-> api_req.name,
                         type |-> IF api_req.config = "Sql" THEN "sql" ELSE "rust"])]
          /\ api_pc' = "insert_definition"
          /\ UNCHANGED api_result
       \/ /\ Fail(HandleDbError("db"))
          /\ UNCHANGED db
    /\ UNCHANGED <<api_req, auth, api_i, schema, sql_compiled, program, compiled, errors,
                   connections, is_preview, notApi>>

\* create_pipeline: the pipeline-definition row, which holds the program.
InsertDefinition ==
    /\ api_pc = "insert_definition"
    /\ \/ /\ db' = [db EXCEPT !.definitions = Append(@,
                        [pipeline_id |-> PipelineId, program |-> program,
                         udfs |-> api_req.udfs])]
          /\ api_pc' = "insert_connections"
          /\ api_i' = 0
          /\ UNCHANGED api_result
       \/ /\ Fail(LogAndMap("db"))
          /\ UNCHANGED <<db, api_i>>
    /\ UNCHANGED <<api_req, auth, schema, sql_compiled, program, compiled, errors,
                   connections, is_preview, notApi>>

\* create_pipeline: outside preview mode one pipeline-connection row per
\* element of `connections`; then Ok(pipeline_id).
InsertConnections ==
    /\ api_pc = "insert_connections"
    /\ IF ~is_preview /\ api_i < Len(connections)
       THEN \/ /\ db' = [db EXCEPT !.connection_tables = Append(@,
                             [pipeline_id |-> PipelineId,
                              connection |-> connections[api_i + 1]])]
               /\ api_i' = api_i + 1
               /\ UNCHANGED <<api_pc, api_result>>
            \/ /\ Fail(LogAndMap("db"))
               /\ UNCHANGED <<db, api_i>>
       ELSE /\ api_result' = Status("ok", "none", <<PipelineId>>)
            /\ api_pc' = "done"
            /\ UNCHANGED <<db, api_i>>
    /\ UNCHANGED <<api_req, auth, schema, sql_compiled, program, compiled, errors,
                   connections, is_preview, notApi>>

NextApi ==
    \/ MatchConfig
    \/ RegisterUdf
    \/ LoadTables
    \/ ParseAndGetProgram
    \/ OptimizeAndLimit
    \/ ValidateGraph
    \/ PreviewRewrite
    \/ EncodeAndName
    \/ InsertPipeline
    \/ InsertDefinition
    \/ InsertConnections

SpecApi == InitApi /\ [][NextApi]_vars


\* The program held by the pipeline-definition row.
StoredProgram == db.definitions[1].program

\* C5: when validate_graph reports errors, create_pipeline fails with a
\* message that lists every one of them, in order, and no row has been
\* written; and whenever a row has been written, the parallelism limit, the
\* compile, the operator-count limit, validation and the name check have
\* all passed.
C5_NoWriteBeforeChecks ==
    /\ errors # <<>> =>
          /\ api_pc = "done"
          /\ api_result.status \notin {"ok", "none"}
          /\ Len(api_result.message) = Len(errors) + 1
          /\ \A i \in 1..Len(errors) : api_result.message[i + 1][2] = errors[i]
          /\ db = EmptyDb
    /\ db # EmptyDb =>
          /\ api_pc \in {"insert_definition", "insert_connections", "done"}
          /\ errors = <<>>
          /\ api_req.name # ""
          /\ Len(program) <= auth.max_operators
          /\ api_req.config = "Sql" =>
                /\ api_req.parallelism <= auth.max_parallelism
                /\ sql_compiled

\* A SQL request with a name has failed validation with two errors.
C5_Witness ==
    /\ api_pc = "done"
    /\ api_req.config = "Sql" /\ api_req.name # ""
    /\ errors = <<"e1", "e2">>
    /\ api_result.message = <<"Program validation failed:", <<"  * ", "e1">>, <<"  * ", "e2">>>>

\* C6: a SQL request that succeeds with preview = true stores a program
\* where every connector sink is the web sink and every other node has the
\* operator it was compiled to, and writes no pipeline-connection row; with
\* preview = false the stored program is the compiled one and the
\* pipeline-connection rows are, one for one, the connection ids the
\* compile returned.
C6_PreviewSinks ==
    /\ (api_req.config = "Sql" /\ api_req.preview) => db.connection_tables = <<>>
    /\ (api_req.config = "Sql" /\ api_result.status = "ok") =>
          IF api_req.preview
          THEN /\ Len(StoredProgram) = Len(compiled)
               /\ \A i \in 1..Len(compiled) :
                     /\ StoredProgram[i].op = "ConnectorSink" => StoredProgram[i] = WebSink
                     /\ compiled[i].op = "ConnectorSink" => StoredProgram[i] = WebSink
                     /\ compiled[i].op # "ConnectorSink" => StoredProgram[i] = compiled[i]
          ELSE /\ StoredProgram = compiled
               /\ Len(db.connection_tables) = Len(connections)
               /\ \A i \in 1..Len(connections) :
                     /\ db.connection_tables[i].connection = connections[i]
                     /\ db.connection_tables[i].pipeline_id = db.pipelines[1].id

\* A preview request has succeeded on a program with a source and a kafka
\* sink that uses two connections.
C6_Witness ==
    /\ api_req.config = "Sql" /\ api_req.preview /\ api_result.status = "ok"
    /\ compiled = <<[op |-> "ConnectorSource", connector |-> "kafka"], ConnectorSink("kafka")>>
    /\ Len(connections) = MaxConns

\* A request without preview has succeeded with a kafka sink and two
\* connections.
C6_WitnessStored ==
    /\ api_req.config = "Sql" /\ ~api_req.preview /\ api_result.status = "ok"
    /\ \E i \in 1..Len(compiled) : compiled[i] = ConnectorSink("kafka")
    /\ Len(db.connection_tables) = MaxConns

\* Causes that are internal errors and not errors of the request.
InternalErrors == {"panic", "db", "decode", "encode"}

\* C7: every failure caused by a parse, binding, type, unsupported-feature,
\* UDF, connector-config or plan-validation error has status
\* invalid_argument, status internal is used for internal errors only, and
\* a failure has no status other than these two.
C7_StatusClasses ==
    (api_pc = "done" /\ api_result.status # "ok") =>
        /\ api_result.cause \in UserErrors => api_result.status = "invalid_argument"
        /\ api_result.status = "internal" => api_result.cause \in InternalErrors
        /\ api_result.status \in {"invalid_argument", "internal"}

\* The UDFs of the request that compile_sql cannot register: the language
\* is not Rust, or add_rust_udf fails on the definition.
Offending ==
    {i \in 1..Len(api_req.udfs) :
        api_req.udfs[i].language # "Rust" \/ api_req.udfs[i].definition # "valid"}

FirstOffending == CHOOSE i \in Offending : \A j \in Offending : i <= j

\* C11: compile_sql goes through the UDFs in order and stops at the first
\* one it cannot register: with an invalid_argument error that names the
\* UDF's index (from 0) when its language is not Rust, with an
\* invalid_argument error when its registration fails; after that no
\* connector table is loaded and no SQL is compiled, and the tables are
\* loaded and the SQL compiled only when every UDF was registered.
C11_FirstBadUdf ==
    /\ (schema.tables \/ sql_compiled \/ api_pc \in {"tables", "parse"}) =>
          /\ Offending = {}
          /\ schema.udfs = Len(api_req.udfs)
    /\ api_result.cause \in {"udf", "udf_language"} =>
          /\ Offending # {}
          /\ api_i = FirstOffending - 1
          /\ schema.udfs = api_i
          /\ api_result.status = "invalid_argument"
          /\ api_req.udfs[FirstOffending].language # "Rust" =>
                /\ api_result.cause = "udf_language"
                /\ api_result.message = <<"udfs", FirstOffending - 1, "language">>
          /\ api_req.udfs[FirstOffending].language = "Rust" =>
                api_result.cause = "udf"
          /\ ~schema.tables /\ ~sql_compiled /\ api_pc = "done"
    /\ (api_pc = "done" /\ Offending # {} /\ api_req.config = "Sql"
            /\ api_req.parallelism <= auth.max_parallelism) =>
          api_result.cause \in {"udf", "udf_language"}

\* The second UDF of a request has an unknown language, the first one was
\* registered.
C11_Witness ==
    /\ api_pc = "done" /\ api_result.cause = "udf_language"
    /\ Len(api_req.udfs) = 2 /\ api_req.udfs[1].language = "Rust"
    /\ schema.udfs = 1
    /\ api_result.message = <<"udfs", 1, "language">>

\* The first UDF fails to register and the second has an unknown language.
C11_RegistrationFirst ==
    /\ api_pc = "done" /\ api_result.cause = "udf"
    /\ Len(api_req.udfs) = 2 /\ api_req.udfs[2].language = "None"


(***************************************************************************)
(* The configuration comment of a UDF definition: get_toml_value,          *)
(* parse_dependencies, parse_udf_opts.  A definition is a sequence of      *)
(* lines, each ended by a newline; the regular expressions of the code are *)
(* worked out on lines.                                                    *)
(***************************************************************************)
CommentOpen == "/*"
CommentClose == "*/"
DependenciesHeader == "[dependencies]"
UdfsHeader == "[udfs]"
Dependency == "serde = \"1.0\""
OrderedTrue == "async_results_ordered = true"
OrderedInvalid == "async_results_ordered = 1"
Blank == ""
Other == "other text"
NotDefined == "# not defined"

Headers == {DependenciesHeader, UdfsHeader}
KeyValues == {Dependency, OrderedTrue, OrderedInvalid}

\* The lines that occur inside a block comment, and outside.
CommentLines == Headers \cup KeyValues \cup {Blank, Other}
CodeLines == {Blank, Other}

Key(line) == IF line = Dependency THEN "serde" ELSE "async_results_ordered"

\* The index of the first line from `from` on that is in S; 0 if none.
FirstIndex(lines, from, S) ==
    LET I == {i \in from..Len(lines) : lines[i] \in S}
    IN  IF I = {} THEN 0 ELSE CHOOSE i \in I : \A j \in I : i <= j

\* The index of the table header line i is under; 0 at the top level.
TableOf(lines, i) ==
    LET H == {h \in 1..i : lines[h] \in Headers}
    IN  IF H = {} THEN 0 ELSE CHOOSE h \in H : \A g \in H : g <= h

\* toml::from_str::<Value> succeeds: only headers, key/value pairs and
\* blank lines, no table defined twice, no key twice in a table.
TomlValid(lines) ==
    /\ \A i \in 1..Len(lines) : lines[i] \in Headers \cup KeyValues \cup {Blank}
    /\ \A i, j \in 1..Len(lines) :
          (i < j /\ lines[i] \in Headers) => lines[i] # lines[j]
    /\ \A i, j \in 1..Len(lines) :
          (i < j /\ lines[i] \in KeyValues /\ lines[j] \in KeyValues
                 /\ Key(lines[i]) = Key(lines[j]))
              => TableOf(lines, i) # TableOf(lines, j)

\* The key/value lines of the table under `header`.
Table(lines, header) ==
    LET h == FirstIndex(lines, 1, {header})
    IN  {lines[i] : i \in {j \in 1..Len(lines) :
                              lines[j] \in KeyValues /\ TableOf(lines, j) = h}}

\* The captures of /\*\n(.*\n[\s\S]*?)\*/ on the lines from `from` on: a
\* match starts at a "/*" line, takes the next line whatever it is, and
\* ends at the first "*/" after that line.
RECURSIVE Captures(_, _)
Captures(lines, from) ==
    LET open == FirstIndex(lines, from, {CommentOpen})
        close == IF open = 0 THEN 0 ELSE FirstIndex(lines, open + 2, {CommentClose})
    IN  IF close = 0 THEN <<>>
        ELSE <<SubSeq(lines, open + 1, close - 1)>> \o Captures(lines, close + 1)

\* Ok(<<>>) stands for Ok(None), Ok(lines) for Ok(Some(table)).
GetTomlValue(definition) ==
    LET toml == SelectSeq(Captures(definition, 1), TomlValid)
    IN  IF Len(toml) > 1
        THEN Err("Only one configuration comment is allowed in a UDF", <<>>)
        ELSE IF Len(toml) = 1 THEN Ok(toml[1])
        ELSE Ok(<<>>)

\* (?m)\*\n[\s\S]*?(\[dependencies\]\n[\s\S]*?)(?:^$|\*/): from the first
\* line that ends in "*", the first "[dependencies]" line and what follows
\* it up to the first empty line, the first "*/" or the end of the text.
ParseDependencies(definition) ==
    IF ~GetTomlValue(definition).ok THEN GetTomlValue(definition)
    ELSE LET star == FirstIndex(definition, 1, {CommentOpen})
             first == IF star = 0 THEN 0
                      ELSE FirstIndex(definition, star + 1, {DependenciesHeader})
             stop == FirstIndex(definition, first + 1, {Blank, CommentClose})
             last == IF stop = 0 THEN Len(definition) ELSE stop - 1
         IN  IF first = 0 THEN Ok(<<DependenciesHeader, NotDefined>>)
             ELSE Ok(SubSeq(definition, first, last))

\* UdfOpts from the [udfs] table: async_results_ordered is a boolean that
\* is false when left out.
UdfOpts(table) ==
    IF OrderedInvalid \in table THEN Err("invalid type", DefaultOpts)
    ELSE Ok([async_results_ordered |-> OrderedTrue \in table])

ParseUdfOpts(definition) ==
    LET t == GetTomlValue(definition)
    IN  IF ~t.ok THEN Err(t.error, DefaultOpts)
        ELSE IF UdfsHeader \in {t.value[i] : i \in 1..Len(t.value)}
             THEN UdfOpts(Table(t.value, UdfsHeader))
             ELSE UdfOpts({})


\* A definition ends inside a block comment.
InComment(lines) ==
    LET open == {i \in 1..Len(lines) : lines[i] = CommentOpen}
        close == {i \in 1..Len(lines) : lines[i] = CommentClose}
    IN  Cardinality(open) > Cardinality(close)

\* The lines that can follow: a comment is opened in code and closed in a
\* comment.
NextLines(lines) ==
    IF InComment(lines) THEN CommentLines \cup {CommentClose}
    ELSE CodeLines \cup {CommentOpen}

InitToml ==
    /\ text = <<>>
    /\ dependencies = NotCalled(<<>>)
    /\ udf_opts = NotCalled(DefaultOpts)
    /\ PlanIdle
    /\ SvcIdle
    /\ ApiIdle
    /\ UdfIdle
    /\ SqlIdle
    /\ CatIdle
    /\ AvroIdle
    /\ ConnIdle
    /\ EdgeIdle
    /\ FusedIdle
    /\ CqIdle

\* The definition gets one more line, as long as it has not been parsed.
WriteLine ==
    /\ Len(text) < MaxTextLen
    /\ dependencies = NotCalled(<<>>)
    /\ udf_opts = NotCalled(DefaultOpts)
    /\ \E line \in NextLines(text) : text' = Append(text, line)
    /\ UNCHANGED <<dependencies, udf_opts, notToml>>

\* parse_dependencies is called on a definition whose comments are closed.
CallParseDependencies ==
    /\ ~InComment(text)
    /\ dependencies = NotCalled(<<>>)
    /\ dependencies' = ParseDependencies(text)
    /\ UNCHANGED <<text, udf_opts, notToml>>

\* parse_udf_opts is called on a definition whose comments are closed.
CallParseUdfOpts ==
    /\ ~InComment(text)
    /\ udf_opts = NotCalled(DefaultOpts)
    /\ udf_opts' = ParseUdfOpts(text)
    /\ UNCHANGED <<text, dependencies, notToml>>

NextToml ==
    \/ WriteLine
    \/ CallParseDependencies
    \/ CallParseUdfOpts

SpecToml == InitToml /\ [][NextToml]_vars


\* The bodies of the block comments of a definition: the lines between a
\* "/*" line and the next "*/" line.
RECURSIVE Comments(_, _)
Comments(lines, from) ==
    LET open == FirstIndex(lines, from, {CommentOpen})
        close == IF open = 0 THEN 0 ELSE FirstIndex(lines, open + 1, {CommentClose})
    IN  IF close = 0 THEN <<>>
        ELSE <<SubSeq(lines, open + 1, close - 1)>> \o Comments(lines, close + 1)

\* A comment body that is not empty and parses as a TOML table.
IsTomlTable(lines) == lines # <<>> /\ TomlValid(lines)

TomlComments(lines) == SelectSeq(Comments(lines, 1), IsTomlTable)

NotBlank(line) == line # Blank

\* The [dependencies] section of a TOML table: its header and the lines of
\* the table, up to the next header.
DependenciesSection(lines) ==
    LET first == FirstIndex(lines, 1, {DependenciesHeader})
        next == FirstIndex(lines, first + 1, Headers)
        last == IF next = 0 THEN Len(lines) ELSE next - 1
    IN  SelectSeq(SubSeq(lines, first, last), NotBlank)

Holds(lines, line) == \E i \in 1..Len(lines) : lines[i] = line

\* C10: parse_dependencies and parse_udf_opts both fail on a definition
\* with more than one block comment that parses as a TOML table and both
\* succeed on one with at most one; with none they return the default
\* "[dependencies]\n# not defined\n" and the default options; with one that
\* holds [dependencies] and [udfs] they return the [dependencies] section
\* alone and the async_results_ordered given.
C10_ConfigComment ==
    (dependencies # NotCalled(<<>>) /\ udf_opts # NotCalled(DefaultOpts)) =>
        LET toml == TomlComments(text)
        IN  /\ Len(toml) > 1 => (~dependencies.ok /\ ~udf_opts.ok)
            /\ Len(toml) <= 1 => (dependencies.ok /\ udf_opts.ok)
            /\ Len(toml) = 0 =>
                  /\ dependencies = Ok(<<DependenciesHeader, NotDefined>>)
                  /\ udf_opts = Ok(DefaultOpts)
            /\ (/\ Len(toml) = 1
                /\ Holds(toml[1], DependenciesHeader)
                /\ Holds(toml[1], UdfsHeader)) =>
                  /\ dependencies = Ok(DependenciesSection(toml[1]))
                  /\ udf_opts = Ok([async_results_ordered |->
                                        OrderedTrue \in Table(toml[1], UdfsHeader)])

\* The same on definitions without an ill-typed option.
C10_WellTypedOptions ==
    ~Holds(text, OrderedInvalid) => C10_ConfigComment

\* Both parsers have failed on a definition with two TOML comments.
C10_TwoComments ==
    /\ Len(TomlComments(text)) = 2
    /\ ~dependencies.ok /\ dependencies.error # "not called"
    /\ ~udf_opts.ok /\ udf_opts.error # "not called"

\* Both parsers have succeeded on a definition whose one comment holds
\* [dependencies], an empty line, and [udfs] with the option.
C10_OneComment ==
    /\ text = <<CommentOpen, DependenciesHeader, Dependency, Blank, UdfsHeader, OrderedTrue,
                CommentClose>>
    /\ dependencies = Ok(<<DependenciesHeader, Dependency>>)
    /\ udf_opts = Ok([async_results_ordered |-> TRUE])


(***************************************************************************)
(* add_rust_udf.  A definition is what parse_file makes of it (its items)  *)
(* together with its lines; the maps of the schema provider hold names.    *)
(***************************************************************************)
\* Types of parameters: a type is or is not a Vec, and its (inner) type is
\* or is not convertible to a SQL data type.
Type(vec, convertible) == [vec |-> vec, convertible |-> convertible]

Receiver == [arg |-> "Receiver", ident |-> "self", ty |-> Type(FALSE, FALSE)]

Typed(ident, ty) == [arg |-> "Typed", ident |-> ident, ty |-> ty]

\* self; context: Arc<Context>; x: i64; x: Vec<i64>; x: Context.
FnArgs ==
    {Receiver,
     Typed("context", Type(FALSE, FALSE)),
     Typed("x", Type(FALSE, TRUE)),
     Typed("x", Type(TRUE, TRUE)),
     Typed("x", Type(FALSE, FALSE))}

\* ReturnType::Default, and ReturnType::Type with a type that can or cannot
\* be converted.
Outputs == {"Default", "Type", "Unconvertible"}

UdfNames == {"f", "hop"}

ItemFns ==
    [name : UdfNames, asyncness : BOOLEAN, inputs : SeqsUpTo(FnArgs, MaxParams),
     output : Outputs]

\* The lines of the definitions that are registered: no comment, one
\* configuration comment, two of them, one with an ill-typed option.
ConfigTexts ==
    {<<Other>>,
     <<CommentOpen, DependenciesHeader, Dependency, Blank, UdfsHeader, OrderedTrue,
       CommentClose, Other>>,
     <<CommentOpen, DependenciesHeader, CommentClose, CommentOpen, UdfsHeader, CommentClose,
       Other>>,
     <<CommentOpen, UdfsHeader, OrderedInvalid, CommentClose, Other>>}

TwoFns ==
    <<[name |-> "f", asyncness |-> FALSE, inputs |-> <<>>, output |-> "Type"],
      [name |-> "hop", asyncness |-> FALSE, inputs |-> <<>>, output |-> "Type"]>>

Bodies ==
    {[parses |-> FALSE, items |-> <<>>, text |-> <<Other>>]}
    \cup [parses : {TRUE}, items : {<<>>, TwoFns}, text : {<<Other>>}]
    \cup [parses : {TRUE}, items : {<<f>> : f \in ItemFns}, text : ConfigTexts]

\* vec_inner_type: <<>> for None, <<inner>> for Some(inner).
VecInnerType(ty) == IF ty.vec THEN <<Type(FALSE, ty.convertible)>> ELSE <<>>

\* The first argument of an async function is skipped if it is named context.
HasContext(function) ==
    /\ function.asyncness
    /\ Len(function.inputs) >= 1
    /\ function.inputs[1].arg = "Typed"
    /\ function.inputs[1].ident = "context"

\* inputs.skip(skip)
Inputs(function) ==
    SubSeq(function.inputs, IF HasContext(function) THEN 2 ELSE 1, Len(function.inputs))

\* The loop over the inputs: the error of the first input that is a
\* receiver or cannot be converted, "" if there is none.
ArgsError(inputs) ==
    LET bad == {i \in 1..Len(inputs) :
                   inputs[i].arg = "Receiver" \/ ~inputs[i].ty.convertible}
        i == CHOOSE i \in bad : \A j \in bad : i <= j
    IN  IF bad = {} THEN ""
        ELSE IF inputs[i].arg = "Receiver" THEN "has a 'self' argument, which is not allowed"
        ELSE IF VecInnerType(inputs[i].ty) # <<>>
             THEN "Could not convert inner vector arg into a SQL data type"
        ELSE "Could not convert arg into a SQL data type"

VecArguments(inputs) == Cardinality({i \in 1..Len(inputs) : VecInnerType(inputs[i].ty) # <<>>})

\* The test for a mix of vector and other arguments.
Mixed_never(inputs) == FALSE

Mixed(inputs) == VecArguments(inputs) > 0 /\ VecArguments(inputs) # Len(inputs)


\* The definition holds exactly one function item.
ExactlyOne_first(items) == Len(items) >= 1

ExactlyOne(items) == Len(items) = 1

\* add_rust_udf(b) on the maps as they are: what it returns and the maps it
\* leaves.  The function is entered into functions or aggregate_functions
\* before parse_dependencies and parse_udf_opts are called.
AddRustUdf(b) ==
    LET function == b.items[1]
        name == function.name
        inputs == Inputs(function)
        unchanged == Maps(functions, aggregate_functions, udf_defs)
        registered == IF VecArguments(inputs) > 0
                      THEN Maps(functions, aggregate_functions \cup {name}, udf_defs)
                      ELSE Maps(functions \cup {name}, aggregate_functions, udf_defs)
        deps == ParseDependencies(b.text)
        opts == ParseUdfOpts(b.text)
        def == [name |-> name, async_fn |-> function.asyncness,
                has_context |-> HasContext(function),
                dependencies |-> deps.value, opts |-> opts.value]
        Fails(error, maps) == [result |-> Err(error, ""), maps |-> maps]
    IN  IF ~b.parses THEN Fails("parse_file", unchanged)
        ELSE IF ~ExactlyOne(b.items)
             THEN Fails("UDF definition must contain exactly 1 function.", unchanged)
        ELSE IF ArgsError(inputs) # "" THEN Fails(ArgsError(inputs), unchanged)
        ELSE IF function.output = "Default"
             THEN Fails("return type must be specified", unchanged)
        ELSE IF function.output = "Unconvertible"
             THEN Fails("Could not convert return type into a SQL data type", unchanged)
        ELSE IF Mixed(inputs) THEN Fails("arguments must be vectors or none", unchanged)
        ELSE IF ~deps.ok THEN Fails(deps.error, registered)
        ELSE IF ~opts.ok THEN Fails(opts.error, registered)
        ELSE [result |-> Ok(name),
              maps |-> [registered EXCEPT
                            !.udf_defs = {e \in @ : e.name # name} \cup {def}]]

InitUdf ==
    /\ functions = BuiltinFunctions
    /\ aggregate_functions = {}
    /\ udf_defs = {}
    /\ body = NoBody
    /\ udf_result = NotCalled("")
    /\ before = Maps(BuiltinFunctions, {}, {})
    /\ PlanIdle
    /\ SvcIdle
    /\ ApiIdle
    /\ TomlIdle
    /\ SqlIdle
    /\ CatIdle
    /\ AvroIdle
    /\ ConnIdle
    /\ EdgeIdle
    /\ FusedIdle
    /\ CqIdle

\* add_rust_udf is called with a definition and returns.
CallAddRustUdf ==
    /\ body = NoBody
    /\ \E b \in Bodies :
          LET returned == AddRustUdf(b)
          IN  /\ body' = b
              /\ before' = Maps(functions, aggregate_functions, udf_defs)
              /\ udf_result' = returned.result
              /\ functions' = returned.maps.functions
              /\ aggregate_functions' = returned.maps.aggregate_functions
              /\ udf_defs' = returned.maps.udf_defs
    /\ UNCHANGED notUdf

\* The caller has taken the result; the provider is ready for the next UDF.
TakeResult ==
    /\ body # NoBody
    /\ body' = NoBody
    /\ udf_result' = NotCalled("")
    /\ before' = Maps(functions, aggregate_functions, udf_defs)
    /\ UNCHANGED <<functions, aggregate_functions, udf_defs, notUdf>>

NextUdf ==
    \/ CallAddRustUdf
    \/ TakeResult

SpecUdf == InitUdf /\ [][NextUdf]_vars


\* The call under way or just returned, in the terms of the claims.
Called == body # NoBody
OneFunction == Called /\ body.parses /\ Len(body.items) = 1
TheFunction == body.items[1]
Params == Inputs(TheFunction)
AllVectors == Len(Params) >= 1 /\ \A i \in 1..Len(Params) : Params[i].ty.vec
NoVector == \A i \in 1..Len(Params) : ~Params[i].ty.vec
HasReceiver == \E i \in 1..Len(TheFunction.inputs) : TheFunction.inputs[i].arg = "Receiver"
Convertible ==
    \A i \in 1..Len(Params) : Params[i].arg = "Typed" /\ Params[i].ty.convertible
MapsNow == Maps(functions, aggregate_functions, udf_defs)
HasDef(name) == \E e \in udf_defs : e.name = name

\* C8 as stated: of a function whose parameters are all of a type that can
\* be converted, one with vector parameters only (at least one) is in
\* aggregate_functions and not in functions, one with no vector parameter
\* is in functions and not in aggregate_functions, and one with both kinds
\* fails with the error 'arguments must be vectors or none'.
C8_AsStated ==
    (OneFunction /\ Convertible) =>
        /\ AllVectors => /\ TheFunction.name \in aggregate_functions
                         /\ TheFunction.name \notin functions
        /\ NoVector => /\ TheFunction.name \in functions
                       /\ TheFunction.name \notin aggregate_functions
        /\ (~AllVectors /\ ~NoVector) =>
              udf_result = Err("arguments must be vectors or none", "")

\* C8, amended: of a function that has passed the checks of its parameters
\* and of its return type, one with vector parameters only (at least one)
\* is entered in aggregate_functions and functions is left as it was, one
\* with no vector parameter is entered in functions and aggregate_functions
\* is left as it was, and one with both kinds fails with the error
\* 'arguments must be vectors or none' and all maps are left as they were.
C8_Classification ==
    (OneFunction /\ Convertible /\ TheFunction.output = "Type") =>
        /\ AllVectors =>
              /\ aggregate_functions = before.aggregate_functions \cup {TheFunction.name}
              /\ functions = before.functions
        /\ NoVector =>
              /\ functions = before.functions \cup {TheFunction.name}
              /\ aggregate_functions = before.aggregate_functions
        /\ (~AllVectors /\ ~NoVector) =>
              /\ udf_result = Err("arguments must be vectors or none", "")
              /\ MapsNow = before

\* An async function with a context and one vector parameter has been
\* registered as an aggregate.
C8_Witness ==
    /\ OneFunction /\ udf_result = Ok("f")
    /\ TheFunction.asyncness /\ HasContext(TheFunction)
    /\ Len(Params) = 1 /\ AllVectors
    /\ "f" \in aggregate_functions /\ "f" \notin functions

\* A function with a vector and a scalar parameter has been rejected.
C8_Mixed ==
    /\ OneFunction /\ Len(Params) = MaxParams /\ ~AllVectors /\ ~NoVector
    /\ udf_result = Err("arguments must be vectors or none", "")

\* A function is well-formed: no receiver, parameter and return types that
\* can be converted, vector parameters only or none.
WellFormed ==
    /\ ~HasReceiver
    /\ Convertible
    /\ TheFunction.output = "Type"
    /\ AllVectors \/ NoVector

\* C9 as stated: add_rust_udf fails and leaves the three maps as they were
\* when the definition has no or several functions, a receiver among the
\* parameters or no return type; with exactly one well-formed function it
\* returns the function's name and udf_defs has an entry under it.
C9_AsStated ==
    (Called /\ body.parses) =>
        /\ (\/ Len(body.items) # 1
            \/ (Len(body.items) = 1 /\ (HasReceiver \/ TheFunction.output = "Default"))) =>
              (~udf_result.ok /\ MapsNow = before)
        /\ (Len(body.items) = 1 /\ WellFormed) =>
              (udf_result = Ok(TheFunction.name) /\ HasDef(TheFunction.name))

\* The definition has at most one configuration comment, and no option of
\* a wrong type.
WellConfigured ==
    /\ Len(TomlComments(body.text)) <= 1
    /\ ~Holds(body.text, OrderedInvalid)

\* C9, amended: the same, where the definition of the one well-formed
\* function also has at most one configuration comment and no ill-typed
\* option.
C9_Registration ==
    (Called /\ body.parses) =>
        /\ (\/ Len(body.items) # 1
            \/ (Len(body.items) = 1 /\ (HasReceiver \/ TheFunction.output = "Default"))) =>
              (~udf_result.ok /\ MapsNow = before)
        /\ (Len(body.items) = 1 /\ WellFormed /\ WellConfigured) =>
              (udf_result = Ok(TheFunction.name) /\ HasDef(TheFunction.name))

\* A well-formed function with a configuration comment has been registered
\* after another one.
C9_Witness ==
    /\ OneFunction /\ WellFormed /\ Len(TomlComments(body.text)) = 1
    /\ udf_result = Ok("f")
    /\ \E e \in udf_defs : e.name = "f" /\ e.opts.async_results_ordered
    /\ before.udf_defs # {}

\* A definition with two functions has been rejected.
C9_TwoFunctions ==
    /\ Called /\ body.items = TwoFns
    /\ ~udf_result.ok /\ MapsNow = before

(***************************************************************************)
(* parse_and_get_program_sync: from the statements of a query to the       *)
(* operators that are added to the plan graph.  A statement is a table     *)
(* declaration, an INSERT into a connector sink, a bare SELECT, or a       *)
(* statement that Table::try_from_statement or Insert::try_from_statement  *)
(* rejects.                                                                *)
(***************************************************************************)
StatementKinds == {"CreateTable", "Insert", "Select", "Rejected"}

Queries == SeqsUpTo(StatementKinds, MaxStatements)

\* Insert::InsertQuery and Insert::Anonymous, for the statement at `stmt`.
InsertQuery(stmt) == [insert |-> "InsertQuery", sink_name |-> "kafka_sink", stmt |-> stmt]
Anonymous(stmt) == [insert |-> "Anonymous", sink_name |-> "", stmt |-> stmt]

\* The operator the logical plan of statement `stmt` is lowered to.
QueryOp(stmt) == [op |-> "Query", name |-> "", stmt |-> stmt]

\* SqlOperator::Sink(name, _, input)
SinkOp(name, input) == [op |-> "Sink", name |-> name, stmt |-> input.stmt]

\* SqlPipelineBuilder::add_insert: an INSERT becomes a Sink over its query,
\* an anonymous insert stays the bare query.
AddInsert(insert) ==
    IF insert.insert = "InsertQuery"
    THEN SinkOp(insert.sink_name, QueryOp(insert.stmt))
    ELSE QueryOp(insert.stmt)

\* The sink parse_and_get_program_sync builds around `insert`:
\* Table::ConnectorTable{name: "web", ..}.as_sql_sink(insert)
WebSinkOp(insert) == SinkOp("web", insert)

HasSink(nodes) == \E i \in 1..Len(nodes) : nodes[i].op = "Sink"

InitSql ==
    /\ query \in Queries
    /\ sql_pc = "statements"
    /\ inserts = <<>>
    /\ insert_nodes = <<>>
    /\ plan_ops = <<>>
    /\ sql_result = NotCalled("")
    /\ PlanIdle
    /\ SvcIdle
    /\ ApiIdle
    /\ TomlIdle
    /\ UdfIdle
    /\ CatIdle
    /\ AvroIdle
    /\ ConnIdle
    /\ EdgeIdle
    /\ FusedIdle
    /\ CqIdle

\* The statement loop: Parser::parse_sql, then each statement is a table
\* (inserted into the schema provider) or an insert.
ParseStatements ==
    /\ sql_pc = "statements"
    /\ \/ /\ sql_result' = Err("parse_sql", "")
          /\ sql_pc' = "done"
          /\ UNCHANGED inserts
       \/ /\ \E i \in 1..Len(query) : query[i] = "Rejected"
          /\ sql_result' = Err("try_from_statement", "")
          /\ sql_pc' = "done"
          /\ UNCHANGED inserts
       \/ /\ \A i \in 1..Len(query) : query[i] # "Rejected"
          /\ LET stmts == SelectSeq([i \in 1..Len(query) |-> i],
                                    LAMBDA i : query[i] \in {"Insert", "Select"})
             IN  inserts' = [k \in 1..Len(stmts) |->
                                IF query[stmts[k]] = "Insert" THEN InsertQuery(stmts[k])
                                ELSE Anonymous(stmts[k])]
          /\ sql_pc' = "add_inserts"
          /\ UNCHANGED sql_result
    /\ UNCHANGED <<query, insert_nodes, plan_ops, notSql>>

\* The loop over `inserts`: sql_pipeline_builder.add_insert(insert)?
AddInserts ==
    /\ sql_pc = "add_inserts"
    /\ \/ /\ insert_nodes' = [k \in 1..Len(inserts) |-> AddInsert(inserts[k])]
          /\ sql_pc' = "sinks"
          /\ UNCHANGED sql_result
       \/ /\ inserts # <<>>
          /\ sql_result' = Err("add_insert", "")
          /\ sql_pc' = "done"
          /\ UNCHANGED insert_nodes
    /\ UNCHANGED <<query, inserts, plan_ops, notSql>>

\* No insert node is an error; with no Sink among the insert nodes the last
\* one is popped and added to the plan graph under a web sink.
AddWebSink ==
    /\ sql_pc = "sinks"
    /\ IF insert_nodes = <<>>
       THEN /\ sql_result' = Err("The provided SQL does not contain a query", "")
            /\ sql_pc' = "done"
            /\ UNCHANGED <<insert_nodes, plan_ops>>
       ELSE IF ~HasSink(insert_nodes)
            THEN /\ insert_nodes' = SubSeq(insert_nodes, 1, Len(insert_nodes) - 1)
                 /\ \/ /\ plan_ops' = <<WebSinkOp(insert_nodes[Len(insert_nodes)])>>
                       /\ sql_pc' = "outputs"
                       /\ UNCHANGED sql_result
                    \/ /\ sql_result' = Err("as_sql_sink", "")
                       /\ sql_pc' = "done"
                       /\ UNCHANGED plan_ops
            ELSE /\ sql_pc' = "outputs"
                 /\ UNCHANGED <<insert_nodes, plan_ops, sql_result>>
    /\ UNCHANGED <<query, inserts, notSql>>

\* The remaining insert nodes are added to the plan graph as they are, and
\* get_program returns the program.
AddOutputs ==
    /\ sql_pc = "outputs"
    /\ plan_ops' = plan_ops \o insert_nodes
    /\ insert_nodes' = <<>>
    /\ \/ sql_result' = Ok("program")
       \/ sql_result' = Err("get_program", "")
    /\ sql_pc' = "done"
    /\ UNCHANGED <<query, inserts, notSql>>

NextSql ==
    \/ ParseStatements
    \/ AddInserts
    \/ AddWebSink
    \/ AddOutputs

SpecSql == InitSql /\ [][NextSql]_vars

\* The bare SELECT statements of the query.
BareSelects == {i \in 1..Len(query) : query[i] = "Select"}

\* C12: after parse_and_get_program_sync has succeeded, every bare SELECT
\* of the query is in the plan graph under a web sink, whether or not the
\* query has INSERT statements too, and whether it is the last insert or
\* an earlier one.
C12_EverySelectHasWebSink ==
    (sql_pc = "done" /\ sql_result.ok) =>
        \A i \in BareSelects :
            \E k \in 1..Len(plan_ops) :
                plan_ops[k] = SinkOp("web", QueryOp(i))

\* The compile succeeded on a query with an INSERT and a bare SELECT.
C12_InsertAndSelect ==
    /\ sql_pc = "done" /\ sql_result.ok
    /\ BareSelects # {}
    /\ \E i \in 1..Len(query) : query[i] = "Insert"

\* What the code does: only the last insert gets the web sink, and only
\* when no insert has a sink.
C12_LastSelectOnly ==
    (sql_pc = "done" /\ sql_result.ok) =>
        \A i \in BareSelects :
            (\E k \in 1..Len(plan_ops) : plan_ops[k] = SinkOp("web", QueryOp(i)))
                <=> /\ \A j \in 1..Len(query) : query[j] # "Insert"
                    /\ \A j \in BareSelects : j <= i

(***************************************************************************)
(* The table catalog: ArroyoSchemaProvider.tables, a HashMap whose keys    *)
(* are UniCase strings, and source_defs, a HashMap whose keys are Strings. *)
(* A name is a sequence of characters.                                     *)
(***************************************************************************)
TableNames == {<<"t">>, <<"T">>, <<"t", "b">>, <<"T", "B">>, <<"u">>}

\* The case folding UniCase compares with, one character at a time.
FoldChar(c) ==
    CASE c = "T" -> "t"
      [] c = "B" -> "b"
      [] OTHER -> c

Fold_exact(name) == name

Fold(name) == [i \in 1..Len(name) |-> FoldChar(name[i])]

\* Table::ConnectorTable and the other tables; id tells the insertions apart.
CatalogTable(name, kind, id) == [name |-> name, kind |-> kind, id |-> id]

TableKinds == {"ConnectorTable", "MemoryTable"}

\* HashMap::insert under a UniCase key: the value of an equal key is
\* replaced and that key stays as it is.
TablesInsert(tables, key, value) ==
    IF \E e \in tables : Fold(e.key) = Fold(key)
    THEN {IF Fold(e.key) = Fold(key) THEN [key |-> e.key, value |-> value] ELSE e :
             e \in tables}
    ELSE tables \cup {[key |-> key, value |-> value]}

\* HashMap::get under a UniCase key.
TablesGet(tables, name) ==
    IF \E e \in tables : Fold(e.key) = Fold(name)
    THEN [name |-> name, found |-> TRUE,
          table |-> (CHOOSE e \in tables : Fold(e.key) = Fold(name)).value]
    ELSE [name |-> name, found |-> FALSE, table |-> NoLookup.table]

\* HashMap::insert under a String key.
DefsInsert(defs, key, def) ==
    {e \in defs : e.key # key} \cup {[key |-> key, def |-> def]}

InitCat ==
    /\ schema_provider = EmptyProvider
    /\ inserted = <<>>
    /\ lookup = NoLookup
    /\ PlanIdle
    /\ SvcIdle
    /\ ApiIdle
    /\ TomlIdle
    /\ UdfIdle
    /\ SqlIdle
    /\ AvroIdle
    /\ ConnIdle
    /\ EdgeIdle
    /\ FusedIdle
    /\ CqIdle

\* add_connector_table: the definition schema_defs gives, if any, is stored
\* under the connection's name, then the table is inserted.
AddConnectorTable(name, has_def) ==
    /\ Len(inserted) < MaxInserts
    /\ LET table == CatalogTable(name, "ConnectorTable", Len(inserted) + 1)
       IN  /\ schema_provider' =
                 [tables |-> TablesInsert(schema_provider.tables, name, table),
                  source_defs |-> IF has_def
                                  THEN DefsInsert(schema_provider.source_defs, name, table.id)
                                  ELSE schema_provider.source_defs]
           /\ inserted' = Append(inserted, table)
    /\ lookup' = NoLookup
    /\ UNCHANGED notCat

\* insert_table
InsertTable(name, kind) ==
    /\ Len(inserted) < MaxInserts
    /\ LET table == CatalogTable(name, kind, Len(inserted) + 1)
       IN  /\ schema_provider' =
                 [schema_provider EXCEPT !.tables = TablesInsert(@, name, table)]
           /\ inserted' = Append(inserted, table)
    /\ lookup' = NoLookup
    /\ UNCHANGED notCat

\* get_table
GetTable(name) ==
    /\ lookup' = TablesGet(schema_provider.tables, name)
    /\ lookup' # lookup
    /\ UNCHANGED <<schema_provider, inserted, notCat>>

NextCat ==
    \/ \E name \in TableNames, has_def \in BOOLEAN : AddConnectorTable(name, has_def)
    \/ \E name \in TableNames, kind \in TableKinds : InsertTable(name, kind)
    \/ \E name \in TableNames : GetTable(name)

SpecCat == InitCat /\ [][NextCat]_vars

\* Two names are equal ignoring letter case.
SameIgnoringCase(a, b) ==
    /\ Len(a) = Len(b)
    /\ \A i \in 1..Len(a) :
          \/ a[i] = b[i]
          \/ {a[i], b[i]} \in {{"t", "T"}, {"b", "B"}}

\* The insertions whose table has the name `name` ignoring case.
Matching(name) == {i \in 1..Len(inserted) : SameIgnoringCase(inserted[i].name, name)}

\* C14: get_table(n) returns the table inserted last among those whose name
\* equals n ignoring letter case, with the name as it was inserted, and
\* None when there is none; the catalog holds no two tables whose names
\* are equal ignoring case.
C14_CaseInsensitiveCatalog ==
    /\ lookup # NoLookup =>
          IF Matching(lookup.name) = {}
          THEN ~lookup.found
          ELSE /\ lookup.found
               /\ lookup.table =
                     inserted[CHOOSE i \in Matching(lookup.name) :
                                 \A j \in Matching(lookup.name) : j <= i]
    /\ \A e1, e2 \in schema_provider.tables :
          SameIgnoringCase(e1.value.name, e2.value.name) => e1 = e2

\* A table was inserted as "tb" and then one as "TB"; get_table("tb")
\* returned the second, named "TB".
C14_Witness ==
    /\ Len(inserted) >= 2
    /\ inserted[1].name = <<"t", "b">> /\ inserted[2].name = <<"T", "B">>
    /\ lookup.name = <<"t", "b">> /\ lookup.found
    /\ lookup.table.name = <<"T", "B">> /\ lookup.table.id = 2

\* source_defs holds, under the name of a table, a definition that was made
\* for a table that has since been replaced.
C14_StaleSourceDef ==
    \E d \in schema_provider.source_defs :
        LET got == TablesGet(schema_provider.tables, d.key)
        IN  got.found /\ got.table.name = d.key /\ got.table.id # d.def

(***************************************************************************)
(* Avro schemas to struct fields (arroyo-sql/src/avro.rs)                  *)
(*                                                                         *)
(* A schema is what apache_avro's Schema::parse_str produced: a leaf, a    *)
(* union of variants or a record of named fields.  A union holds no two    *)
(* variants of one kind and no union, as the Avro parser requires.         *)
(***************************************************************************)
AvroLeaf(k) ==
    [kind |-> k, name |-> "", variants |-> <<>>, fields |-> <<>>]

AvroUnion(vs) ==
    [kind |-> "union", name |-> "", variants |-> vs, fields |-> <<>>]

AvroRecord(n, fs) ==
    [kind |-> "record", name |-> n, variants |-> <<>>, fields |-> fs]

AvroField(n, s) == [name |-> n, schema |-> s]

\* Null, Int and Map: a leaf with no value, a leaf with an Arrow type, and a
\* schema to_typedef has no arm for
LeafKinds == {"null", "int", "map"}

FieldNames == {"x", "y"}

SourceName == "s"

Leaves == {AvroLeaf(k) : k \in LeafKinds}

NestedRecords == {AvroRecord("n", <<AvroField("x", AvroLeaf("int"))>>)}

Variants == Leaves \cup NestedRecords

Unions ==
    {AvroUnion(vs) : vs \in {s \in SeqsUpTo(Variants, MaxVariants) :
        /\ Len(s) >= 1
        /\ \A i, j \in 1..Len(s) : s[i].kind = s[j].kind => i = j}}

FieldSchemas == Leaves \cup Unions \cup NestedRecords

Records ==
    {AvroRecord("r", [i \in 1..Len(ns) |-> AvroField(ns[i], ss[i])]) :
        <<ns, ss>> \in {p \in SeqsUpTo(FieldNames, MaxFields) \X SeqsUpTo(FieldSchemas, MaxFields) :
            /\ Len(p[1]) >= 1
            /\ Len(p[1]) = Len(p[2])
            /\ \A i, j \in 1..Len(p[1]) : p[1][i] = p[1][j] => i = j}}

Schemas == Leaves \cup Unions \cup Records

\* the text handed to convert_avro_schema: it parses to a schema or it does not
AvroTexts ==
    {[parses |-> TRUE, schema |-> s] : s \in Schemas}
    \cup {NoAvroText}

DataTypeDef(dt, nullable) ==
    [td |-> "DataType", data_type |-> dt, name |-> <<>>, fields |-> <<>>,
     nullable |-> nullable]

StructTypeDef(n, fs, nullable) ==
    [td |-> "StructDef", data_type |-> "", name |-> n, fields |-> fs,
     nullable |-> nullable]

ToOptional(t) == [t EXCEPT !.nullable = TRUE]

WithRename(n, ft, original) ==
    [name |-> n, data_type |-> ft, original |-> original]

Json == [typedef |-> DataTypeDef("Utf8", FALSE), original |-> "json"]

\* nulls.len() == 1 && not_nulls.len() == 1
TwoVariants(union) ==
    /\ Cardinality({i \in 1..Len(union.variants) : union.variants[i].kind = "null"}) = 1
    /\ Cardinality({i \in 1..Len(union.variants) : union.variants[i].kind # "null"}) = 1

NotNull(union) ==
    union.variants[CHOOSE i \in 1..Len(union.variants) : union.variants[i].kind # "null"]

RECURSIVE ToTypedef(_, _)
ToTypedef(source_name, s) ==
    CASE s.kind = "null" -> [typedef |-> DataTypeDef("Null", FALSE), original |-> "none"]
      [] s.kind = "int" -> [typedef |-> DataTypeDef("Int32", FALSE), original |-> "none"]
      [] s.kind = "union" ->
            IF TwoVariants(s)
            THEN LET inner == ToTypedef(source_name, NotNull(s))
                 IN  [typedef |-> ToOptional(inner.typedef), original |-> inner.original]
            ELSE Json
      [] s.kind = "record" ->
            [typedef |->
                StructTypeDef(<<source_name, "::", s.name>>,
                    [i \in 1..Len(s.fields) |->
                        LET f == ToTypedef(source_name, s.fields[i].schema)
                        IN  WithRename(s.fields[i].name, f.typedef, f.original)],
                    FALSE),
             original |-> "none"]
      [] OTHER -> Json

ConvertAvroSchemaHelper(name, input) ==
    IF ~input.parses
    THEN [ok |-> FALSE, fields |-> <<>>, error |-> "avro schema is not valid"]
    ELSE LET typedef == ToTypedef(name, input.schema).typedef
         IN  IF typedef.td = "StructDef"
             THEN [ok |-> TRUE, fields |-> typedef.fields, error |-> ""]
             ELSE [ok |-> FALSE, fields |-> <<>>,
                   error |-> "top-level schema must be a record"]

InitAvro ==
    /\ avro_text \in AvroTexts
    /\ avro_result = NoAvroResult
    /\ PlanIdle /\ SvcIdle /\ ApiIdle /\ TomlIdle /\ UdfIdle /\ SqlIdle /\ CatIdle
    /\ ConnIdle /\ EdgeIdle
    /\ FusedIdle
    /\ CqIdle

ConvertAvroSchema ==
    /\ avro_result = NoAvroResult
    /\ avro_result' = ConvertAvroSchemaHelper(SourceName, avro_text)
    /\ UNCHANGED <<avro_text, notAvro>>

NextAvro == ConvertAvroSchema

SpecAvro == InitAvro /\ [][NextAvro]_vars

AvroCalled == avro_result # NoAvroResult

TopRecord == avro_text.parses /\ avro_text.schema.kind = "record"

\* a union field of the top-level record maps to the nullable form of its
\* other variant exactly when it has two variants of which one is null, and
\* to non-nullable Utf8 with original "json" otherwise
C15_UnionRule ==
    AvroCalled /\ TopRecord =>
        \A i \in 1..Len(avro_text.schema.fields) :
            LET s == avro_text.schema.fields[i].schema
                f == avro_result.fields[i]
            IN  s.kind = "union" =>
                    IF Len(s.variants) = 2 /\ \E j \in 1..2 : s.variants[j].kind = "null"
                    THEN LET other == ToTypedef(SourceName, NotNull(s))
                         IN  /\ f.data_type.nullable
                             /\ f.data_type = [other.typedef EXCEPT !.nullable = TRUE]
                             /\ f.original = other.original
                    ELSE /\ f.data_type = DataTypeDef("Utf8", FALSE)
                         /\ f.original = "json"

\* the fields of the struct are the fields of the record, in declaration order
C15_DeclarationOrder ==
    AvroCalled /\ TopRecord =>
        /\ avro_result.ok
        /\ Len(avro_result.fields) = Len(avro_text.schema.fields)
        /\ \A i \in 1..Len(avro_result.fields) :
              avro_result.fields[i].name = avro_text.schema.fields[i].name

\* a top-level schema that is not a record is refused
C15_TopLevelRecord ==
    AvroCalled /\ avro_text.parses /\ avro_text.schema.kind # "record" =>
        /\ ~avro_result.ok
        /\ avro_result.error = "top-level schema must be a record"

\* C15: to_typedef maps a union to the nullable form of its other variant
\* exactly when the union has exactly two variants of which exactly one is
\* null, and every other union to non-nullable Utf8 with original "json"; a
\* record maps to a struct with the record's fields in declaration order; and
\* convert_avro_schema fails with 'top-level schema must be a record' when the
\* top-level schema is not a record.
C15_AvroMapping ==
    /\ C15_UnionRule
    /\ C15_DeclarationOrder
    /\ C15_TopLevelRecord

\* the schema ["null", {record n}] has been converted, and its fields returned
C15_OptionalRecordAccepted ==
    /\ AvroCalled
    /\ avro_text.parses
    /\ avro_text.schema.kind = "union"
    /\ avro_result.ok

(***************************************************************************)
(* The type-erased connector operations (arroyo-connectors/src/lib.rs)     *)
(*                                                                         *)
(* table_type, test and from_config of ErasedConnector take the config and *)
(* the table as JSON text, parse both and hand the values to the typed     *)
(* operation of the connector.                                             *)
(***************************************************************************)
ErasedOps == {"table_type", "test", "from_config"}

\* JSON texts: not JSON at all, JSON of another shape, and two texts of the
\* connector's type
Blobs == {"{", "[]", "{\"v\":1}", "{\"v\":2}"}

ParseJson_default(s) == [ok |-> TRUE, value |-> [v |-> 0]]

\* serde_json::from_str into the connector's ConfigT or TableT
ParseJson(s) ==
    CASE s = "{\"v\":1}" -> [ok |-> TRUE, value |-> [v |-> 1]]
      [] s = "{\"v\":2}" -> [ok |-> TRUE, value |-> [v |-> 2]]
      [] OTHER -> [ok |-> FALSE, value |-> [v |-> 0]]

InitConn ==
    /\ conn_call \in [op : ErasedOps, config : Blobs, table : Blobs]
    /\ conn_pc = "parse_config"
    /\ conn_parsed = <<>>
    /\ conn_config = NoValue
    /\ conn_table = NoValue
    /\ typed_calls = <<>>
    /\ progress = <<>>
    /\ conn_result = NoConnResult
    /\ PlanIdle /\ SvcIdle /\ ApiIdle /\ TomlIdle /\ UdfIdle /\ SqlIdle /\ CatIdle
    /\ AvroIdle /\ EdgeIdle
    /\ FusedIdle
    /\ CqIdle

\* self.parse_config(config)?
ParseConfig ==
    /\ conn_pc = "parse_config"
    /\ conn_parsed' = Append(conn_parsed, "config")
    /\ LET r == ParseJson(conn_call.config)
       IN  IF r.ok
           THEN /\ conn_config' = r.value
                /\ conn_pc' = "parse_table"
                /\ UNCHANGED conn_result
           ELSE /\ conn_result' = "Err"
                /\ conn_pc' = "returned"
                /\ UNCHANGED conn_config
    /\ UNCHANGED <<conn_call, conn_table, typed_calls, progress, notConn>>

\* self.parse_table(table)?
ParseTable ==
    /\ conn_pc = "parse_table"
    /\ conn_parsed' = Append(conn_parsed, "table")
    /\ LET r == ParseJson(conn_call.table)
       IN  IF r.ok
           THEN /\ conn_table' = r.value
                /\ conn_pc' = "typed"
                /\ UNCHANGED conn_result
           ELSE /\ conn_result' = "Err"
                /\ conn_pc' = "returned"
                /\ UNCHANGED conn_table
    /\ UNCHANGED <<conn_call, conn_config, typed_calls, progress, notConn>>

\* the typed operation of the connector, called with the parsed values; its
\* result is what the erased operation returns (Ok(()) for test)
TypedOperation ==
    /\ conn_pc = "typed"
    /\ typed_calls' = Append(typed_calls,
            [op |-> conn_call.op, config |-> conn_config, table |-> conn_table])
    /\ \/ /\ conn_call.op = "table_type"
          /\ conn_result' = "Ok"
       \/ /\ conn_call.op = "test"
          /\ conn_result' = "Ok"
       \/ /\ conn_call.op = "from_config"
          /\ conn_result' \in {"Ok", "Err"}
    /\ conn_pc' = "returned"
    /\ UNCHANGED <<conn_call, conn_parsed, conn_config, conn_table, progress, notConn>>

\* the connector's test reports on tx, the progress channel it was given
SendTestMessage ==
    /\ \E i \in 1..Len(typed_calls) : typed_calls[i].op = "test"
    /\ Len(progress) < MaxMessages
    /\ \E done \in BOOLEAN :
          progress' = Append(progress, [error |-> FALSE, done |-> done])
    /\ UNCHANGED <<conn_call, conn_pc, conn_parsed, conn_config, conn_table,
                   typed_calls, conn_result, notConn>>

NextConn ==
    \/ ParseConfig
    \/ ParseTable
    \/ TypedOperation
    \/ SendTestMessage

SpecConn == InitConn /\ [][NextConn]_vars

\* the values the two texts stand for, when both are of the connector's type
BothParse ==
    /\ conn_call.config \in {"{\"v\":1}", "{\"v\":2}"}
    /\ conn_call.table \in {"{\"v\":1}", "{\"v\":2}"}

ValueOf(s) == IF s = "{\"v\":1}" THEN [v |-> 1] ELSE [v |-> 2]

\* C16: when the config text or the table text of table_type, test or
\* from_config does not parse, the operation returns an error, the typed
\* operation is never invoked and nothing is sent on the progress channel;
\* the config is parsed before the table; and when both parse the typed
\* operation is invoked exactly once, with the parsed values.
C16_ParseBeforeTypedOperation ==
    /\ ~BothParse =>
          /\ typed_calls = <<>>
          /\ progress = <<>>
          /\ conn_pc = "returned" => conn_result = "Err"
    /\ \A i \in 1..Len(conn_parsed) : conn_parsed[i] = <<"config", "table">>[i]
    /\ Len(conn_parsed) <= 2
    /\ Len(typed_calls) <= 1
    /\ BothParse /\ conn_pc = "returned" =>
          typed_calls = <<[op |-> conn_call.op,
                           config |-> ValueOf(conn_call.config),
                           table |-> ValueOf(conn_call.table)]>>

\* test has returned an error for a table text that is JSON of another shape
C16_Witness ==
    /\ conn_call.op = "test"
    /\ conn_call.config = "{\"v\":1}"
    /\ conn_call.table = "[]"
    /\ conn_pc = "returned"
    /\ conn_result = "Err"

\* test was invoked once with two different values and has reported twice
C16_WitnessInvoked ==
    /\ conn_call.op = "test"
    /\ conn_call.config = "{\"v\":2}"
    /\ conn_call.table = "{\"v\":1}"
    /\ Len(typed_calls) = 1
    /\ Len(progress) = MaxMessages

(***************************************************************************)
(* PlanEdge::into_stream_edge on its own (plan_graph.rs), over every       *)
(* variant of PlanType, the ones no plan of the enumerated trees uses      *)
(* included.                                                               *)
(***************************************************************************)
EdgeStructs == {SourceStruct("a"), SourceStruct("b"), KeyStruct, AggregateStruct}

\* type names as into_stream_edge receives them, token by token
LiteralTypes == {<<"i64">>, <<"String">>}

EdgeTypes == {Forward, Shuffle, ShuffleJoin(0), ShuffleJoin(1)}

PlanTypes ==
    {Unkeyed(v) : v \in EdgeStructs}
    \cup {Keyed(k, v) : <<k, v>> \in EdgeStructs \X EdgeStructs}
    \cup {KeyedPair(k, l, r) : <<k, l, r>> \in EdgeStructs \X EdgeStructs \X EdgeStructs}
    \cup {KeyedListPair(k, l, r) : <<k, l, r>> \in EdgeStructs \X EdgeStructs \X EdgeStructs}

LiteralPlanTypes ==
    {KeyedLiteralTypeValue(k, v) : <<k, v>> \in EdgeStructs \X LiteralTypes}

InitEdge ==
    /\ \/ plan_edge \in {PlanEdge(t, e) : <<t, e>> \in PlanTypes \X EdgeTypes}
       \/ plan_edge \in {PlanEdge(t, e) : <<t, e>> \in LiteralPlanTypes \X EdgeTypes}
    /\ stream_edge = NoStreamEdge
    /\ PlanIdle /\ SvcIdle /\ ApiIdle /\ TomlIdle /\ UdfIdle /\ SqlIdle /\ CatIdle
    /\ AvroIdle /\ ConnIdle
    /\ FusedIdle
    /\ CqIdle

CallIntoStreamEdge ==
    /\ stream_edge = NoStreamEdge
    /\ stream_edge' = IntoStreamEdge(plan_edge)
    /\ UNCHANGED <<plan_edge, notEdge>>

NextEdge == CallIntoStreamEdge

SpecEdge == InitEdge /\ [][NextEdge]_vars

\* C17: the StreamEdge of a PlanEdge keeps the edge type; Unkeyed(T) gives
\* an unkeyed edge whose value is the struct name of T, Keyed{K,V} key K and
\* value V, KeyedPair key K and value "(L,R)", KeyedListPair key K and value
\* "(Vec<L>,Vec<R>)", KeyedLiteralTypeValue key K and the literal string as
\* it is.
C17_StreamEdgeOfPlanEdge ==
    stream_edge # NoStreamEdge =>
        LET t == plan_edge.edge_data_type
            K == StructName(t.key[1])
            L == StructName(t.value[1])
            R == StructName(t.value[2])
        IN  /\ stream_edge.typ = plan_edge.edge_type
            /\ t.kind = "Unkeyed" =>
                  stream_edge.key = <<"()">> /\ stream_edge.value = L
            /\ t.kind = "Keyed" =>
                  stream_edge.key = K /\ stream_edge.value = L
            /\ t.kind = "KeyedPair" =>
                  stream_edge.key = K /\ stream_edge.value = <<"(", L, ",", R, ")">>
            /\ t.kind = "KeyedListPair" =>
                  /\ stream_edge.key = K
                  /\ stream_edge.value = <<"(Vec<", L, ">,Vec<", R, ">)">>
            /\ t.kind = "KeyedLiteralTypeValue" =>
                  stream_edge.key = K /\ stream_edge.value = t.value[1]

\* a ShuffleJoin edge of a KeyedListPair over two different structs converted
C17_Witness ==
    /\ stream_edge # NoStreamEdge
    /\ plan_edge.edge_type = ShuffleJoin(1)
    /\ plan_edge.edge_data_type.kind = "KeyedListPair"
    /\ plan_edge.edge_data_type = KeyedListPair(KeyStruct, SourceStruct("a"), AggregateStruct)

\* an edge of a literal value type converted
C17_WitnessLiteral ==
    /\ stream_edge # NoStreamEdge
    /\ plan_edge.edge_data_type.kind = "KeyedLiteralTypeValue"
    /\ plan_edge.edge_data_type = KeyedLiteralTypeValue(KeyStruct, <<"i64">>)

(***************************************************************************)
(* Joins in the plan graph (plan_graph.rs, add_join).                      *)
(***************************************************************************)
JoinNodes ==
    {i \in 1..Len(Nodes) : Nodes[i].operator.op \in {"InstantJoin", "JoinWithExpiration"}}

\* the join node of the tree's root: the operands are added before it
RootJoin == CHOOSE j \in JoinNodes : \A i \in JoinNodes : i <= j

Incoming(n) == {i \in EdgeIds : Edges[i].target = n}

Outgoing(n) == {i \in EdgeIds : Edges[i].source = n}

BothWindowed(op) == HasWindow(op.left) /\ HasWindow(op.right)

\* the node the one outgoing edge of the join node n leads to
Flatten(n) == Nodes[Edges[CHOOSE i \in Outgoing(n) : TRUE].target]

\* C19: add_join lowers a join to InstantJoin followed by JoinListFlatten,
\* with output KeyedListPair, exactly when both input sides are windowed, and
\* to JoinWithExpiration followed by JoinPairFlatten, with output KeyedPair,
\* in every other case, also when only the left side or only the right side
\* is windowed.
C19_WindowedJoinLowering ==
    plan_built /\ operator.op = "JoinOperator" =>
        IF BothWindowed(operator)
        THEN /\ Nodes[RootJoin].operator.op = "InstantJoin"
             /\ Nodes[RootJoin].output_type.kind = "KeyedListPair"
             /\ Flatten(RootJoin).operator.op = "JoinListFlatten"
        ELSE /\ Nodes[RootJoin].operator.op = "JoinWithExpiration"
             /\ Nodes[RootJoin].output_type.kind = "KeyedPair"
             /\ Flatten(RootJoin).operator.op = "JoinPairFlatten"

\* what add_join does: the left side alone decides
C19_LeftSideDecides ==
    plan_built /\ operator.op = "JoinOperator" =>
        IF HasWindow(operator.left)
        THEN /\ Nodes[RootJoin].operator.op = "InstantJoin"
             /\ Nodes[RootJoin].output_type.kind = "KeyedListPair"
             /\ Flatten(RootJoin).operator.op = "JoinListFlatten"
        ELSE /\ Nodes[RootJoin].operator.op = "JoinWithExpiration"
             /\ Nodes[RootJoin].output_type.kind = "KeyedPair"
             /\ Flatten(RootJoin).operator.op = "JoinPairFlatten"

\* a join whose left side alone is windowed has been built
C19_LeftOnlyWindowed ==
    /\ plan_built
    /\ operator.op = "JoinOperator"
    /\ HasWindow(operator.left)
    /\ ~HasWindow(operator.right)

\* the key projection of side `side` of the join node j, and what feeds it
KeyEdge(j, side) == CHOOSE i \in Incoming(j) : Edges[i].weight.edge_type = ShuffleJoin(side)

JoinSide(j, side) ==
    LET e == Edges[KeyEdge(j, side)]
        kp == e.source
    IN  /\ \E i \in Incoming(j) : Edges[i].weight.edge_type = ShuffleJoin(side)
        /\ e.weight.edge_data_type.kind = "Keyed"
        /\ e.weight.edge_data_type.key = Nodes[j].output_type.key
        /\ e.weight.edge_data_type.value[1] = Nodes[j].output_type.value[side + 1]
        /\ Nodes[kp].operator.op = "KeyProjection"
        /\ Cardinality(Incoming(kp)) = 1
        /\ \A i \in Incoming(kp) :
              /\ Edges[i].weight.edge_type = Forward
              /\ Edges[i].weight.edge_data_type = Unkeyed(e.weight.edge_data_type.value[1])

\* C20: every join node has exactly two incoming edges, ShuffleJoin(0) typed
\* Keyed{K,L} from the left key projection and ShuffleJoin(1) typed
\* Keyed{K,R} from the right one, each key projection fed by one Forward
\* Unkeyed edge from its input; a join that is not windowed is a
\* JoinWithExpiration whose two expirations are 24 hours; and the join node
\* has exactly one outgoing edge, Forward and of the join's output type, to
\* the flatten node, whose output is Unkeyed.
C20_JoinShape ==
    plan_built =>
        /\ \A j \in JoinNodes :
              /\ Cardinality(Incoming(j)) = 2
              /\ JoinSide(j, 0)
              /\ JoinSide(j, 1)
              /\ Nodes[j].operator.op = "JoinWithExpiration" =>
                    /\ Nodes[j].operator.left_expiration = 86400
                    /\ Nodes[j].operator.right_expiration = 86400
              /\ Cardinality(Outgoing(j)) = 1
              /\ \A i \in Outgoing(j) :
                    /\ Edges[i].weight.edge_type = Forward
                    /\ Edges[i].weight.edge_data_type = Nodes[j].output_type
                    /\ Nodes[Edges[i].target].operator.op \in
                          {"JoinPairFlatten", "JoinListFlatten"}
                    /\ Nodes[Edges[i].target].output_type.kind = "Unkeyed"
        /\ ~HasWindow(operator) =>
              \A j \in JoinNodes : Nodes[j].operator.op = "JoinWithExpiration"

\* a join of a join and a source, neither windowed, has been built
C20_Witness ==
    /\ plan_built
    /\ operator.op = "JoinOperator"
    /\ operator.left.op = "JoinOperator"
    /\ ~HasWindow(operator)
    /\ Cardinality(JoinNodes) = 2

(***************************************************************************)
(* Aggregators in the plan graph (plan_graph.rs, add_aggregator).          *)
(***************************************************************************)
AggregateNodes == {i \in 1..Len(Nodes) : Nodes[i].operator.op = "WindowAggregate"}

RECURSIVE CountOps(_, _)
\* how many operators of kind `kind` the tree holds
CountOps(op, kind) ==
    (IF op.op = kind THEN 1 ELSE 0)
    + CASE op.op = "Source" -> 0
        [] op.op = "JoinOperator" -> CountOps(op.left, kind) + CountOps(op.right, kind)
        [] OTHER -> CountOps(op.input, kind)

\* the one edge into node n comes from node m and is `edge`
OnlyEdge(m, n, edge) ==
    /\ Cardinality(Incoming(n)) = 1
    /\ \A i \in Incoming(n) : Edges[i].source = m /\ Edges[i].weight = edge

\* C21: every aggregator appends three nodes after its input, in this order:
\* a key projection with output Keyed{K,T}, reached by a Forward edge typed
\* Unkeyed(T); the window aggregate with output Keyed{K,A}, reached by the
\* only Shuffle edge of the three, typed Keyed{K,T}; and a WindowMerge with
\* output Keyed{K,out}, reached by a Forward edge typed Keyed{K,A}.  The
\* WindowMerge is the node handed to the parent operator.
C21_AggregatorShape ==
    plan_built =>
        /\ Cardinality(AggregateNodes) = CountOps(operator, "Aggregator")
        /\ \A a \in AggregateNodes :
              LET key == a - 1
                  merge == a + 1
                  T == Nodes[key].output_type.value[1]
              IN  /\ key >= 1 /\ merge <= Len(Nodes)
                  /\ Nodes[key].operator.op = "KeyProjection"
                  /\ Nodes[key].output_type = Keyed(KeyStruct, T)
                  /\ Cardinality(Incoming(key)) = 1
                  /\ \A i \in Incoming(key) :
                        /\ Edges[i].source < key
                        /\ Edges[i].weight = PlanEdge(Unkeyed(T), Forward)
                  /\ Outgoing(key) = Incoming(a)
                  /\ Nodes[a].output_type = Keyed(KeyStruct, AggregateStruct)
                  /\ OnlyEdge(key, a, PlanEdge(Keyed(KeyStruct, T), Shuffle))
                  /\ Outgoing(a) = Incoming(merge)
                  /\ Nodes[merge].operator.op = "WindowMerge"
                  /\ Nodes[merge].output_type =
                        Keyed(KeyStruct, MergeOutputStruct(KeyStruct, AggregateStruct))
                  /\ OnlyEdge(a, merge,
                              PlanEdge(Keyed(KeyStruct, AggregateStruct), Forward))
                  /\ Cardinality(Outgoing(merge)) = 1
                  /\ \A i \in Outgoing(merge) : Edges[i].target > merge
        /\ operator.op = "Aggregator" =>
              /\ Nodes[Len(Nodes) - 1].operator.op = "WindowMerge"
              /\ Edges[Len(Edges)].source = Len(Nodes) - 1

\* an aggregator over an aggregator has been built
C21_Witness ==
    /\ plan_built
    /\ operator.op = "Aggregator"
    /\ operator.input.op = "Aggregator"
    /\ Cardinality(AggregateNodes) = 2

(***************************************************************************)
(* Sources in the plan graph (plan_graph.rs, add_sql_source).              *)
(***************************************************************************)
SourceNodes == {i \in 1..Len(Nodes) : Nodes[i].operator.op = "Source"}

WatermarkNodes == {i \in 1..Len(Nodes) : Nodes[i].operator.op = "Watermark"}

RECURSIVE CountSource(_, _)
\* how many times the tree reads the source `name`
CountSource(op, name) ==
    CASE op.op = "Source" -> IF op.name = name THEN 1 ELSE 0
      [] op.op = "JoinOperator" -> CountSource(op.left, name) + CountSource(op.right, name)
      [] OTHER -> CountSource(op.input, name)

\* C22: every source gives a Source node with output Unkeyed(T) whose only
\* outgoing edge is a Forward edge typed Unkeyed(T) to a Watermark node that
\* is Periodic with a period of one second and a max_lateness of one second
\* and has output Unkeyed(T); every consumer of the source is connected to
\* the Watermark node, never to the Source node.
C22_SourceAndWatermark ==
    plan_built =>
        \A s \in SourceNodes :
            LET T == SourceStruct(Nodes[s].operator.name)
                w == s + 1
            IN  /\ Nodes[s].output_type = Unkeyed(T)
                /\ Cardinality(Outgoing(s)) = 1
                /\ \A i \in Outgoing(s) :
                      /\ Edges[i].target = w
                      /\ Edges[i].weight = PlanEdge(Unkeyed(T), Forward)
                /\ w <= Len(Nodes)
                /\ Nodes[w].operator.op = "Watermark"
                /\ Nodes[w].operator.kind = "Periodic"
                /\ Nodes[w].operator.period = 1
                /\ Nodes[w].operator.max_lateness = 1
                /\ Nodes[w].output_type = Unkeyed(T)
                /\ Incoming(s) = {}
                /\ Cardinality(Outgoing(w)) = CountSource(operator, Nodes[s].operator.name)
                /\ \A i \in Outgoing(w) : Nodes[Edges[i].target].operator.op # "Watermark"

\* a join of the source a with the source a has been built: two consumers
C22_Witness ==
    /\ plan_built
    /\ operator.op = "JoinOperator"
    /\ CountSource(operator, "a") = 2
    /\ Cardinality(SourceNodes) = 1

(***************************************************************************)
(* Window functions in the plan graph (plan_graph.rs, add_window).         *)
(***************************************************************************)
WindowFunctionNodes ==
    {i \in 1..Len(Nodes) : Nodes[i].operator.op = "WindowFunction"}

\* C23: every window operator adds a key projection on the partition
\* columns, reached by a Forward edge from the input; a WindowFunction node,
\* reached by a Shuffle edge typed Keyed{P,input}; and an Unkey node, reached
\* by a Forward edge, whose output is Unkeyed(result).  The result struct is
\* the input struct with exactly one field appended last, named field_name,
\* of type UInt64 and not nullable; the input fields are kept in order.
C23_WindowShape ==
    plan_built =>
        /\ Cardinality(WindowFunctionNodes) = CountOps(operator, "Window")
        /\ \A f \in WindowFunctionNodes :
              LET key == f - 1
                  unkey == f + 1
                  input == Nodes[key].output_type.value[1]
                  result == Nodes[f].operator.result_struct
                  n == Len(input.fields)
              IN  /\ key >= 1 /\ unkey <= Len(Nodes)
                  /\ Nodes[key].operator.op = "KeyProjection"
                  /\ Nodes[key].output_type = Keyed(PartitionStruct, input)
                  /\ Cardinality(Incoming(key)) = 1
                  /\ \A i \in Incoming(key) :
                        /\ Edges[i].source < key
                        /\ Edges[i].weight = PlanEdge(Unkeyed(input), Forward)
                  /\ OnlyEdge(key, f, PlanEdge(Keyed(PartitionStruct, input), Shuffle))
                  /\ Outgoing(key) = Incoming(f)
                  /\ Nodes[unkey].operator.op = "Unkey"
                  /\ Cardinality(Incoming(unkey)) = 1
                  /\ \A i \in Incoming(unkey) :
                        Edges[i].source = f /\ Edges[i].weight.edge_type = Forward
                  /\ Outgoing(f) = Incoming(unkey)
                  /\ Nodes[unkey].output_type = Unkeyed(result)
                  /\ Len(result.fields) = n + 1
                  /\ \A i \in 1..n : result.fields[i] = input.fields[i]
                  /\ result.fields[n + 1].name = Nodes[f].operator.field_name
                  /\ result.fields[n + 1].data_type = "UInt64"
                  /\ ~result.fields[n + 1].nullable
        /\ operator.op = "Window" =>
              /\ ReturnType(operator.input).fields =
                    SubSeq(Nodes[Len(Nodes)].output_type.value[1].fields, 1,
                           Len(ReturnType(operator.input).fields))
              /\ Nodes[Len(Nodes) - 2].operator.field_name = operator.field_name

\* a window over a window over a source has been built: two fields appended
C23_Witness ==
    /\ plan_built
    /\ operator.op = "Window"
    /\ operator.input.op = "Window"
    /\ Len(Nodes[Len(Nodes)].output_type.value[1].fields) = 4

\* C24: every plan graph PlanGraph::new builds is acyclic: each edge goes
\* from a node with a smaller index to a node with a larger index, also when
\* several branches of the tree read the same source.
C24_EdgesGoForward ==
    plan_built =>
        \A i \in EdgeIds :
            /\ Edges[i].source \in 1..Len(Nodes)
            /\ Edges[i].target \in 1..Len(Nodes)
            /\ Edges[i].source < Edges[i].target

\* a join of two joins that all read the source a has been built
C24_Witness ==
    /\ plan_built
    /\ operator.op = "JoinOperator"
    /\ operator.left.op = "JoinOperator"
    /\ operator.right.op = "JoinOperator"
    /\ CountSource(operator, "a") = 4
    /\ Cardinality(SourceNodes) = 1

RECURSIVE OwnNodes(_)
\* the nodes the operators of the tree insert themselves, sources left out
OwnNodes(op) ==
    CASE op.op = "Source" -> 0
      [] op.op = "RecordTransform" -> 1 + OwnNodes(op.input)
      [] op.op = "Aggregator" -> 3 + OwnNodes(op.input)
      [] op.op = "Window" -> 3 + OwnNodes(op.input)
      [] op.op = "JoinOperator" -> 4 + OwnNodes(op.left) + OwnNodes(op.right)

RECURSIVE OwnEdges(_)
\* the edges the operators of the tree add themselves, sources left out
OwnEdges(op) ==
    CASE op.op = "Source" -> 0
      [] op.op = "RecordTransform" -> 1 + OwnEdges(op.input)
      [] op.op = "Aggregator" -> 3 + OwnEdges(op.input)
      [] op.op = "Window" -> 3 + OwnEdges(op.input)
      [] op.op = "JoinOperator" -> 5 + OwnEdges(op.left) + OwnEdges(op.right)

NamesRead == {n \in SourceNames : CountSource(operator, n) > 0}

\* C30: a source name that occurs several times in a tree has exactly one
\* Source node and one Watermark node; a later occurrence adds no node and
\* no edge and gives the same Watermark node; and the sources map holds, for
\* each name added, the index of its Watermark node.
C30_OneSourcePerName ==
    plan_built =>
        /\ \A n \in SourceNames :
              LET S == {s \in SourceNodes : Nodes[s].operator.name = n}
              IN  IF n \in NamesRead
                  THEN /\ Cardinality(S) = 1
                       /\ \A s \in S :
                             /\ plan_graph.sources[n] = s + 1
                             /\ Nodes[s + 1].operator.op = "Watermark"
                             /\ \A i \in Outgoing(s) : Edges[i].target = s + 1
                  ELSE S = {} /\ plan_graph.sources[n] = 0
        /\ Cardinality(WatermarkNodes) = Cardinality(NamesRead)
        /\ Len(Nodes) = 2 * Cardinality(NamesRead) + OwnNodes(operator) + 1
        /\ Len(Edges) = Cardinality(NamesRead) + OwnEdges(operator) + 1

\* a join of a window over the source a with the source a has been built
C30_Witness ==
    /\ plan_built
    /\ operator.op = "JoinOperator"
    /\ operator.left.op = "Window"
    /\ CountSource(operator, "a") = 2
    /\ Len(Nodes) = 10

(***************************************************************************)
(* FusedRecordTransform::to_operator (plan_graph.rs).                      *)
(*                                                                         *)
(* The body of the generated expression is a block: statements, then the   *)
(* expression the block evaluates to.                                      *)
(***************************************************************************)
TransformKinds == {"Filter", "ValueProjection", "KeyProjection"}

ReturnTypes == {"Predicate", "Record", "OptionalRecord"}

\* RecordTransform::{Filter, ValueProjection, KeyProjection}, each with the
\* expression to_syn_expression gives
Components == [kind : TransformKinds, expr : {"p", "q"}]

\* what output_type.record_type() gives
RecordTypes == {"A", "B"}

FusedRecordTransforms ==
    {[expressions |-> es, output_types |-> ts, expression_return_type |-> r] :
        <<es, ts, r>> \in
            {x \in SeqsUpTo(Components, MaxComponents)
                       \X SeqsUpTo(RecordTypes, MaxComponents) \X ReturnTypes :
                Len(x[1]) >= 1 /\ Len(x[1]) = Len(x[2])}}

\* let record: #record_type = { let arg = &record.value;
\*     arroyo_types::Record { timestamp: record.timestamp, key: .., value: .. } };
LetRecord(key, value, record_type) ==
    [stmt |-> "let record", key |-> key, value |-> value, cond |-> "",
     record_type |-> record_type]

\* if !{let arg = &record.value; #expr} { return None; }
IfNotReturnNone(expr) ==
    [stmt |-> "if", key |-> <<>>, value |-> "", cond |-> expr, record_type |-> ""]

\* let arg = &record.value;
LetArg ==
    [stmt |-> "let arg", key |-> <<>>, value |-> "&record.value", cond |-> "",
     record_type |-> ""]

\* the statement pushed for one component
Statement(expression, output_type) ==
    CASE expression.kind = "ValueProjection" ->
            LetRecord(<<"None">>, expression.expr, output_type)
      [] expression.kind = "KeyProjection" ->
            LetRecord(<<"Some", expression.expr>>, "record.value.clone()", output_type)
      [] expression.kind = "Filter" -> IfNotReturnNone(expression.expr)

Statements_reversed(f) ==
    [i \in 1..Len(f.expressions) |->
        Statement(f.expressions[Len(f.expressions) + 1 - i],
                  f.output_types[Len(f.expressions) + 1 - i])]

\* record_expressions after the loop over 0..self.expressions.len()
Statements(f) ==
    [i \in 1..Len(f.expressions) |-> Statement(f.expressions[i], f.output_types[i])]

Panic == [panic |-> TRUE, name |-> "", stmts |-> <<>>, tail |-> <<>>, return_type |-> ""]

ExpressionOperator(stmts, tail, return_type) ==
    [panic |-> FALSE, name |-> "fused", stmts |-> stmts, tail |-> tail,
     return_type |-> return_type]

\* { let arg = &record.value; #(#predicates)&&* }
ToPredicateOperator(f) ==
    IF \E i \in 1..Len(f.expressions) : f.expressions[i].kind # "Filter"
    THEN Panic
    ELSE ExpressionOperator(<<LetArg>>,
                            [i \in 1..Len(f.expressions) |-> f.expressions[i].expr],
                            "Predicate")

\* { #(#record_expressions)* record }
ToRecordOperator(f) ==
    IF \E i \in 1..Len(f.expressions) : f.expressions[i].kind = "Filter"
    THEN Panic
    ELSE ExpressionOperator(Statements(f), <<"record">>, "Record")

\* { #(#record_expressions)* Some(record) }
ToOptionalRecordOperator(f) ==
    ExpressionOperator(Statements(f), <<"Some(record)">>, "OptionalRecord")

ToOperator(f) ==
    CASE f.expression_return_type = "Predicate" -> ToPredicateOperator(f)
      [] f.expression_return_type = "Record" -> ToRecordOperator(f)
      [] f.expression_return_type = "OptionalRecord" -> ToOptionalRecordOperator(f)

InitFused ==
    /\ fused \in FusedRecordTransforms
    /\ fused_operator = NoOperator
    /\ PlanIdle /\ SvcIdle /\ ApiIdle /\ TomlIdle /\ UdfIdle /\ SqlIdle /\ CatIdle
    /\ AvroIdle /\ ConnIdle /\ EdgeIdle /\ CqIdle

CallToOperator ==
    /\ fused_operator = NoOperator
    /\ fused_operator' = ToOperator(fused)
    /\ UNCHANGED <<fused, notFused>>

NextFused == CallToOperator

SpecFused == InitFused /\ [][NextFused]_vars

FilterAt(i) == fused.expressions[i].kind = "Filter"

\* the return kind the fusion gives: Predicate for filters only,
\* OptionalRecord when a filter is among the components, Record when all
\* components are projections
FollowsFusionRule ==
    LET n == Len(fused.expressions)
        kind == fused.expression_return_type
    IN  \/ kind = "Predicate" /\ \A i \in 1..n : FilterAt(i)
        \/ kind = "OptionalRecord" /\ \E i \in 1..n : FilterAt(i)
        \/ kind = "Record" /\ \A i \in 1..n : ~FilterAt(i)

\* the expression of the component a statement was made from
ExprIn(st) ==
    CASE st.stmt = "if" -> st.cond
      [] st.stmt = "let record" -> IF st.key = <<"None">> THEN st.value ELSE st.key[2]
      [] OTHER -> ""

\* statement i of the body was made from component i
StatementPerComponent ==
    /\ Len(fused_operator.stmts) = Len(fused.expressions)
    /\ \A i \in 1..Len(fused.expressions) :
          /\ ExprIn(fused_operator.stmts[i]) = fused.expressions[i].expr
          /\ fused_operator.stmts[i].stmt = "if" <=> FilterAt(i)

\* C25 as stated: a FusedRecordTransform whose return kind follows the
\* fusion rule gives, without panicking, one ExpressionOperator whose
\* return_type is the node's kind and whose body holds one statement per
\* component, in the order of the components.
C25_OneStatementPerComponent ==
    fused_operator # NoOperator /\ FollowsFusionRule =>
        /\ ~fused_operator.panic
        /\ fused_operator.name = "fused"
        /\ fused_operator.return_type = fused.expression_return_type
        /\ StatementPerComponent

\* C25 amended: a FusedRecordTransform whose return kind follows the fusion
\* rule gives, without panicking, one ExpressionOperator whose return_type
\* is the node's kind.  For Record and OptionalRecord the body holds one
\* statement per component, in the order of the components, and then the
\* record; for Predicate the body is the statement binding arg and one
\* conjunction that holds one operand per component, in that order.
C25_BodyPerKind ==
    fused_operator # NoOperator /\ FollowsFusionRule =>
        /\ ~fused_operator.panic
        /\ fused_operator.name = "fused"
        /\ fused_operator.return_type = fused.expression_return_type
        /\ IF fused.expression_return_type = "Predicate"
           THEN /\ fused_operator.stmts = <<LetArg>>
                /\ Len(fused_operator.tail) = Len(fused.expressions)
                /\ \A i \in 1..Len(fused.expressions) :
                      fused_operator.tail[i] = fused.expressions[i].expr
           ELSE /\ StatementPerComponent
                /\ Len(fused_operator.tail) = 1

\* a filter and a projection, in this order, fused to an OptionalRecord and
\* converted
C25_Witness ==
    /\ fused_operator # NoOperator
    /\ FollowsFusionRule
    /\ fused.expression_return_type = "OptionalRecord"
    /\ Len(fused.expressions) = 2
    /\ FilterAt(1)
    /\ fused.expressions[2].kind = "ValueProjection"
    /\ fused.expressions[1].expr # fused.expressions[2].expr

\* two filters fused to a Predicate and converted
C25_PredicateChain ==
    /\ fused_operator # NoOperator
    /\ fused.expression_return_type = "Predicate"
    /\ Len(fused.expressions) = 2
    /\ FilterAt(1) /\ FilterAt(2)
    /\ ~fused_operator.panic

(***************************************************************************)
(* parse_and_get_program (arroyo-sql/src/lib.rs) on a query whose plan     *)
(* holds a WindowAggregateTopN operator (plan_graph.rs,                    *)
(* add_window_aggregate_top_n).                                            *)
(***************************************************************************)
TopNOp(input) == [op |-> "WindowAggregateTopN", input |-> input]

\* the trees of Trees and trees with one WindowAggregateTopN, at the root,
\* under another operator, or on one side of a join
CqTrees ==
    LET sub == Trees(MaxDepth - 1)
        leaf == Trees(0)
    IN  sub
        \cup {TopNOp(t) : t \in sub}
        \cup {AggregatorOp(TopNOp(t)) : t \in leaf}
        \cup {WindowOp(TopNOp(t), "rn") : t \in leaf}
        \cup {JoinOp(TopNOp(l), r, j) : l \in leaf, r \in leaf, j \in JoinTypes}
        \cup {JoinOp(l, TopNOp(r), j) : l \in leaf, r \in leaf, j \in JoinTypes}

RECURSIVE AddSqlOperatorPanics(_)
\* add_sql_operator reaches todo!(): every add_* function adds its inputs
\* first, add_window_aggregate_top_n is todo!()
AddSqlOperatorPanics(op) ==
    CASE op.op = "WindowAggregateTopN" -> TRUE
      [] op.op = "Source" -> FALSE
      [] op.op = "JoinOperator" ->
            AddSqlOperatorPanics(op.left) \/ AddSqlOperatorPanics(op.right)
      [] OTHER -> AddSqlOperatorPanics(op.input)

InitCq ==
    /\ cq_query \in [blank : BOOLEAN, operator : CqTrees]
    /\ cq_pc = "start"
    /\ cq_task = "none"
    /\ cq_result = NoCqResult
    /\ PlanIdle /\ SvcIdle /\ ApiIdle /\ TomlIdle /\ UdfIdle /\ SqlIdle /\ CatIdle
    /\ AvroIdle /\ ConnIdle /\ EdgeIdle /\ FusedIdle

\* query.trim().is_empty() bails; otherwise the planning is spawned
SpawnSync ==
    /\ cq_pc = "start"
    /\ IF cq_query.blank
       THEN /\ cq_result' = [ok |-> FALSE, error |-> "Query is empty"]
            /\ cq_pc' = "returned"
            /\ UNCHANGED cq_task
       ELSE /\ cq_task' = "running"
            /\ cq_pc' = "await"
            /\ UNCHANGED cq_result
    /\ UNCHANGED <<cq_query, notCq>>

\* the spawned task runs parse_and_get_program_sync: plan_graph.add_sql_operator
\* on the tree, then get_program
RunSync ==
    /\ cq_task = "running"
    /\ cq_task' = IF AddSqlOperatorPanics(cq_query.operator) THEN "panicked"
                  ELSE "finished"
    /\ UNCHANGED <<cq_query, cq_pc, cq_result, notCq>>

\* .await on the JoinHandle: a JoinError becomes "Something went wrong"
AwaitTask ==
    /\ cq_pc = "await"
    /\ cq_task \in {"finished", "panicked"}
    /\ cq_result' = IF cq_task = "panicked"
                    THEN [ok |-> FALSE, error |-> "Something went wrong"]
                    ELSE [ok |-> TRUE, error |-> ""]
    /\ cq_pc' = "returned"
    /\ UNCHANGED <<cq_query, cq_task, notCq>>

NextCq ==
    \/ SpawnSync
    \/ RunSync
    \/ AwaitTask

SpecCq == InitCq /\ [][NextCq]_vars

RECURSIVE ContainsTopN(_)
ContainsTopN(op) ==
    \/ op.op = "WindowAggregateTopN"
    \/ op.op = "JoinOperator" /\ (ContainsTopN(op.left) \/ ContainsTopN(op.right))
    \/ op.op \notin {"Source", "JoinOperator"} /\ ContainsTopN(op.input)

\* C26: compiling a tree that holds a WindowAggregateTopN operator ends with
\* an UnsupportedFeature error returned to the caller: no Program, and no
\* panic in the compile.
C26_TopNUnsupported ==
    ~cq_query.blank /\ ContainsTopN(cq_query.operator) =>
        /\ cq_task # "panicked"
        /\ cq_pc = "returned" =>
              ~cq_result.ok /\ cq_result.error = "UnsupportedFeature"

\* what the code does: the task panics, the caller gets a nameless error
C26_SomethingWentWrong ==
    cq_pc = "returned" /\ ~cq_query.blank /\ ContainsTopN(cq_query.operator) =>
        /\ cq_task = "panicked"
        /\ ~cq_result.ok
        /\ cq_result.error = "Something went wrong"

\* a join with a WindowAggregateTopN on its right side was compiled
C26_TopNCompiled ==
    /\ cq_pc = "returned"
    /\ ~cq_query.blank
    /\ cq_query.operator.op = "JoinOperator"
    /\ ContainsTopN(cq_query.operator.right)

(***************************************************************************)
(* The idle-shutdown watcher and the requests in progress.                 *)
(***************************************************************************)
\* r is waiting for the build lock, or holds it
InProgress(r) == req[r].pc \in {"lock"} \cup CompilePcs

\* C27: the idle-shutdown watcher never terminates the process while a
\* compile_query request is waiting for the build lock or holding it,
\* however long the build takes.
C27_NoExitWhileCompiling ==
    exited => \A r \in Reqs : ~InProgress(r)

\* what the code keeps: the watcher exits only when more than idle_time has
\* passed since the last compile_query was called
C27_ExitOnlyAfterIdleTime ==
    exited => idle_time # NoIdle /\ elapsed > idle_time

\* the process exited while one request held the lock and another waited
C27_ExitedUnderLock ==
    /\ exited
    /\ \E r \in Reqs : lock = r /\ req[r].pc = "cargo"
    /\ \E r \in Reqs : req[r].pc = "lock"

(***************************************************************************)
(* add_rust_udf: what a failed call leaves in the maps.                    *)
(***************************************************************************)
\* the names in functions and aggregate_functions that only a UDF can have put
UdfRegistered == (functions \ BuiltinFunctions) \cup aggregate_functions

\* C28: when add_rust_udf returns an error, for any reason (more than one
\* configuration comment and an unparsable [udfs] table included),
\* functions, aggregate_functions and udf_defs are as they were before the
\* call; and after any sequence of calls every name a UDF registered in
\* functions or aggregate_functions has an entry in udf_defs.
C28_FailedCallChangesNothing ==
    /\ (Called /\ ~udf_result.ok) => MapsNow = before
    /\ \A name \in UdfRegistered : HasDef(name)

\* what the code keeps: a call that fails before the configuration comments
\* are read leaves the maps as they were
C28_EarlyErrorsChangeNothing ==
    (/\ Called
     /\ ~udf_result.ok
     /\ ~(OneFunction /\ ~ParseDependencies(body.text).ok)
     /\ ~(OneFunction /\ ~ParseUdfOpts(body.text).ok)) => MapsNow = before

\* a call failed on its two configuration comments and left its function
\* registered without a definition
C28_RegisteredWithoutDef ==
    /\ OneFunction
    /\ Len(TomlComments(body.text)) = 2
    /\ ~udf_result.ok
    /\ TheFunction.name \in UdfRegistered
    /\ ~HasDef(TheFunction.name)

(***************************************************************************)
(* The artifacts a request uploads and the sources they were built from.   *)
(***************************************************************************)
\* C29: over any sequence of compile requests, the wasm artifact uploaded
\* for a successful request was built from that request's wasm_fns source (a
\* request with empty wasm_fns never uploads a wasm artifact that an earlier
\* request's build produced), and the pipeline binary uploaded was built
\* from that request's pipeline and types sources.
C29_ArtifactsFromOwnSources ==
    \A r \in Reqs : req[r].result = "ok" =>
        \A a \in Uploaded(r) : a.built_from = r

\* what the code keeps: the pipeline binary is the request's own, and so is
\* the wasm artifact of a request with wasm_fns
C29_OwnPipeline ==
    \A a \in storage :
        (a.kind = "pipeline" \/ req[a.job].wasm_fns) => a.built_from = a.job

\* a request with empty wasm_fns succeeded with the wasm artifact of another
\* request's build
C29_StaleWasm ==
    \E r \in Reqs :
        /\ req[r].result = "ok"
        /\ ~req[r].wasm_fns
        /\ \E a \in Uploaded(r) : a.kind = "wasm" /\ a.built_from \notin {0, r}

=============================================================================
